---- MODULE Spec2Model ----
(***************************************************************************)
(* CodeShield TrustGate verification engine: the execution orchestrator    *)
(* (engine/executor.py), the rule registry and the built-in rules          *)
(* (engine/rules.py), the lazy grammar table (engine/parser.py), the       *)
(* MetaAST (engine/meta_ast.py) and the builders of the control flow, data *)
(* flow, taint flow and call graphs (engine/graphs.py).                    *)
(*                                                                         *)
(* Conventions                                                             *)
(*  - confidence scores are integers in hundredths (1.0 is 100); the float *)
(*    arithmetic of _compute_confidence ends in round(score, 2), which     *)
(*    returns the exact hundredth for every count of findings that leaves  *)
(*    the score positive, so hundredths lose nothing;                      *)
(*  - a Python dict is a sequence of [key, report] entries in insertion    *)
(*    order (the order iter() yields);                                     *)
(*  - what a stage called by verify does on the given code (the parser,    *)
(*    the normaliser, the graph builders, a rule's match callable) is an   *)
(*    input of the call: "ok", "has_errors" or "raise" for the parser,     *)
(*    the set of builders that raise, and per rule the findings it returns *)
(*    or "raise";                                                          *)
(*  - a rule's match callable is the function from the graph map it is     *)
(*    handed (given by the keys the map holds) to what the call does;      *)
(*  - a string with dots (a file name, the name of a call) is the sequence *)
(*    of its parts between the dots;                                       *)
(*  - the label of a node of the control flow or taint flow graph is its   *)
(*    prefix (ENTRY, IF, SOURCE, ...), the name after it being kept in the *)
(*    node's meta; the labels of the data flow and call graphs are the     *)
(*    strings the code formats ("def:x", "use:x", "param:x", the name of   *)
(*    the function);                                                       *)
(*  - a built-in rule that is run on a MetaAST returns findings that carry *)
(*    the line and the node they point at; where a rule is a stage of      *)
(*    verify its findings carry the rule id and the severity alone;        *)
(*  - elapsed_ms is a clock reading and is left out of the report.         *)
(***************************************************************************)
EXTENDS Integers, Sequences, FiniteSets, TLC

VARIABLES
    cache,      \* executor._cache, in dict insertion order
    inserted,   \* history: the keys now cached, in the order they were inserted
    LANGUAGES,  \* parser._LANGUAGES: language -> grammar object
    built,      \* history: number of Language objects constructed per language
    call,       \* history: the arguments and the path of the last verify call
    ret,        \* what the last operation returned or raised
    prev,       \* history: call and ret of the call before the last one
    given,      \* history: what the last operation was applied to (the rule
                \* set and the stages' behaviour of a verify call, the
                \* RuleSet of enabled_rules, the MetaAST of a graph builder)
    pc,         \* per thread: the statement of verify the thread is at
    loc         \* per thread: the thread's local variables

vars == <<cache, inserted, LANGUAGES, built, call, ret, prev, given, pc, loc>>

(***************************************************************************)
(* Bounds                                                                  *)
(***************************************************************************)
\* capacity of the result cache, scaled down from the program's 512
CACHE_MAX == 2
\* longest custom RuleSet passed to verify
MaxRules == 2
\* most findings one rule returns on one input
MaxPerRule == 2
\* longest chain of rules registered in one RuleSet
MaxChain == 3
\* most nodes of a MetaAST below its MODULE root
MaxNodes == 3
\* most calls in a program handed to the taint graph builder
MaxCalls == 2
\* last line of such a program
MaxLine == 2
\* most statements in a block of a program handed to the unreachable_code rule
MaxStmts == 2

None == "None"

(***************************************************************************)
(* rules.py: Severity, Finding, Rule, RuleSet                              *)
(***************************************************************************)
Severity == {"error", "warning", "info", "hint"}

Finding(rule_id, severity) == [rule_id |-> rule_id, severity |-> severity]

\* what a call of a rule's match callable does: it returns a list of
\* findings or it raises
Returns(findings) == [raises |-> FALSE, findings |-> findings]
Raises == [raises |-> TRUE, findings |-> << >>]

\* the keys of the graph map that verify builds and hands to every rule
GraphKinds == {"cfg", "dfg", "tfg", "call_graph"}

\* the graph maps a rule can be handed, each given by its keys
GraphMaps == SUBSET GraphKinds

\* a match callable on the input at hand: graph map -> what the call does;
\* Always is a callable that does not read the graph map
Always(outcome) == [graphs \in GraphMaps |-> outcome]

Rule(id, severity, languages, enabled, match) ==
    [id |-> id, severity |-> severity, languages |-> languages,
     enabled |-> enabled, match |-> match]

RECURSIVE Repeat(_, _)
Repeat(x, n) == IF n = 0 THEN << >> ELSE <<x>> \o Repeat(x, n - 1)

\* mutant: the languages a rule is registered for are not looked at
enabled_rules_any_language(rules, language) ==
    SelectSeq(rules, LAMBDA r : r.enabled)

\* RuleSet.enabled_rules
enabled_rules(rules, language) ==
    SelectSeq(rules, LAMBDA r :
        /\ r.enabled
        /\ ~(r.languages # {} /\ language # "" /\ language \notin r.languages))

BuiltinIds ==
    <<"shell_injection", "taint_flow", "unused_import", "type_mismatch",
      "bare_except", "hardcoded_secret", "unreachable_code">>

BuiltinSeverity(id) ==
    IF id \in {"unused_import", "bare_except", "unreachable_code"}
    THEN "warning" ELSE "error"

BuiltinLanguages(id) ==
    IF id \in {"unused_import", "bare_except"} THEN {"python"} ELSE {}

\* _rule_taint_to_sink: no findings unless the graph map holds a tfg; found
\* is what the edges of the tfg of the input yield
TaintMatch(found) ==
    [graphs \in GraphMaps |->
        IF "tfg" \notin graphs THEN Returns(<< >>) ELSE Returns(found)]

\* _BUILTIN_RULES / load_builtin_rules: the seven rules in their fixed order;
\* fired is the set of built-in rules whose pattern occurs in the input
load_builtin_rules(fired) ==
    [i \in 1..Len(BuiltinIds) |->
        LET id    == BuiltinIds[i]
            found == IF id \in fired
                     THEN <<Finding(id, BuiltinSeverity(id))>> ELSE << >>
        IN  Rule(id, BuiltinSeverity(id), BuiltinLanguages(id), TRUE,
                 IF id = "taint_flow" THEN TaintMatch(found)
                 ELSE Always(Returns(found)))]

(***************************************************************************)
(* executor.py                                                             *)
(***************************************************************************)
\* _code_hash: the digest of f"{language}:{code}"; the 64-bit truncated
\* SHA-256 is taken to be collision-free on the formatted strings
code_hash(code, language) == language \o ":" \o code

\* A dotted string (a file name, a qualified name) is the sequence of its
\* parts between the dots: "app.test.js" is <<"app", "test", "js">> and ".py"
\* is <<"", "py">>.  NoFile is the filename left at None or given empty,
\* the two values that `if filename` takes for false.
NoFile == << >>

\* s.endswith("." + ext), for an ext without a dot
EndsWithDot(s, ext) == Len(s) >= 2 /\ s[Len(s)] = ext

\* parser._EXT_MAP, in the order of the dict
EXT_MAP ==
    <<[ext |-> "py",  lang |-> "python"],
      [ext |-> "pyw", lang |-> "python"],
      [ext |-> "pyi", lang |-> "python"],
      [ext |-> "js",  lang |-> "javascript"],
      [ext |-> "mjs", lang |-> "javascript"],
      [ext |-> "cjs", lang |-> "javascript"],
      [ext |-> "jsx", lang |-> "javascript"]>>

\* parser.detect_language: the language of the first extension that ends
\* the file name, None when there is none
detect_language(filename) ==
    LET hits == SelectSeq(EXT_MAP, LAMBDA e : EndsWithDot(filename, e.ext))
    IN  IF hits = << >> THEN None ELSE Head(hits).lang

\* mutant: the file name is not looked at
ResolveLanguage_ignored(language, filename) == language

\* verify, lines 119-123
ResolveLanguage(language, filename) ==
    IF filename # NoFile /\ language = "python" /\ detect_language(filename) # None
    THEN detect_language(filename)
    ELSE language

\* _resolve_lang
resolve_lang(language) ==
    CASE language \in {"python", "py"}     -> "python"
      [] language \in {"javascript", "js"} -> "javascript"
      [] OTHER                             -> "python"

\* one deduction of the loop of _compute_confidence, in hundredths
Deduct(severity) ==
    CASE severity = "error"   -> 15
      [] severity = "warning" -> 5
      [] severity = "info"    -> 2
      [] OTHER                -> 0

RECURSIVE ScoreLoop(_, _)
ScoreLoop(score, findings) ==
    IF findings = << >> THEN score
    ELSE ScoreLoop(score - Deduct(Head(findings).severity), Tail(findings))

Max(a, b) == IF a >= b THEN a ELSE b
Min(a, b) == IF a <= b THEN a ELSE b

\* mutant: the score is not clamped
compute_confidence_unclamped(findings, parse_ok) ==
    ScoreLoop(IF parse_ok THEN 100 ELSE 70, findings)

\* mutant: a failed parse costs nothing by itself
compute_confidence_no_parse_penalty(findings, parse_ok) ==
    Max(0, Min(100, ScoreLoop(100, findings)))

\* _compute_confidence
compute_confidence(findings, parse_ok) ==
    LET start == IF parse_ok THEN 100 ELSE 70
    IN  Max(0, Min(100, ScoreLoop(start, findings)))

\* mutant: one try around the whole loop, so the first rule that raises ends it
RECURSIVE RunRules_abort(_, _, _)
RunRules_abort(all_findings, rules, graphs) ==
    IF rules = << >> THEN all_findings
    ELSE LET done == Head(rules).match[graphs]
         IN  IF done.raises THEN all_findings
             ELSE RunRules_abort(all_findings \o done.findings, Tail(rules), graphs)

\* mutant: a finding equal to one already gathered is not added again
RECURSIVE RunRules_dedup(_, _, _)
RunRules_dedup(all_findings, rules, graphs) ==
    IF rules = << >> THEN all_findings
    ELSE LET done == Head(rules).match[graphs]
             seen == {all_findings[i] : i \in DOMAIN all_findings}
             new  == SelectSeq(done.findings, LAMBDA f : f \notin seen)
         IN  RunRules_dedup(IF done.raises THEN all_findings
                            ELSE all_findings \o new,
                            Tail(rules), graphs)

\* the loop of verify, lines 208-213: rule.match(meta_ast, graphs) for each
\* rule in turn; a rule that raises adds nothing
RECURSIVE RunRules(_, _, _)
RunRules(all_findings, rules, graphs) ==
    IF rules = << >> THEN all_findings
    ELSE LET done == Head(rules).match[graphs]
         IN  RunRules(IF done.raises THEN all_findings
                      ELSE all_findings \o done.findings,
                      Tail(rules), graphs)

VerificationReport(is_valid, confidence, findings, errors, warnings, language, parse_ok, h) ==
    [kind |-> "report", is_valid |-> is_valid, confidence_score |-> confidence,
     findings |-> findings, errors |-> errors, warnings |-> warnings,
     language |-> language, parse_ok |-> parse_ok, code_hash |-> h]

Raised(exc) == [kind |-> "raise", exc |-> exc]

\* mutant: the report of a parse that raised is scored like any other
ParseErrorReport_scored(language, h) ==
    VerificationReport(FALSE, 55,
                       <<Finding("parse_error", "error")>>,
                       <<Finding("parse_error", "error")>>,
                       << >>, language, FALSE, h)

\* verify, lines 147-169: the report of a parse that raised
ParseErrorReport(language, h) ==
    VerificationReport(FALSE, 0,
                       <<Finding("parse_error", "error")>>,
                       <<Finding("parse_error", "error")>>,
                       << >>, language, FALSE, h)

\* the rules argument of verify, Optional[RuleSet]
Default == << >>
Given(ruleset) == <<ruleset>>

\* mutant: errors and warnings are taken from the rules' findings alone
Aggregate_rule_errors(language, h, parse_ok, ruleset, graphs) ==
    LET start        == IF parse_ok THEN << >>
                        ELSE <<Finding("syntax_error", "error")>>
        found        == RunRules(<< >>, enabled_rules(ruleset, language), graphs)
        all_findings == start \o found
        errors       == SelectSeq(found, LAMBDA f : f.severity = "error")
        warnings     == SelectSeq(found, LAMBDA f : f.severity = "warning")
    IN  VerificationReport(Len(errors) = 0 /\ parse_ok,
                           compute_confidence(all_findings, parse_ok),
                           all_findings, errors, warnings, language, parse_ok, h)

\* verify, lines 195-234: rules, aggregation, report
Aggregate(language, h, parse_ok, ruleset, graphs) ==
    LET start        == IF parse_ok THEN << >>
                        ELSE <<Finding("syntax_error", "error")>>
        all_findings == RunRules(start, enabled_rules(ruleset, language), graphs)
        errors       == SelectSeq(all_findings, LAMBDA f : f.severity = "error")
        warnings     == SelectSeq(all_findings, LAMBDA f : f.severity = "warning")
    IN  VerificationReport(Len(errors) = 0 /\ parse_ok,
                           compute_confidence(all_findings, parse_ok),
                           all_findings, errors, warnings, language, parse_ok, h)

\* mutant: the first builder that raises ends the graph stage
BuildGraphs_abort(failed) == IF failed = {} THEN GraphKinds ELSE {}

\* verify, lines 176-193: each builder in a try of its own; the keys of the
\* graph map are the kinds whose builder returned
BuildGraphs(failed) == GraphKinds \ failed

\* mutant: a tree with error markers is refused like a parse that raised
Pipeline_strict(language, h, rules, env) ==
    IF env.parse # "ok" THEN ParseErrorReport(language, h)
    ELSE IF env.normalise = "raise" THEN Raised("normalise")
    ELSE Aggregate(language, h, TRUE,
                   IF rules = Default THEN load_builtin_rules(env.fired)
                   ELSE rules[1],
                   BuildGraphs(env.failed))

\* verify, lines 135-234, after a cache miss: the report built, or the
\* exception that leaves verify.  env.parse is the outcome of parse_source,
\* env.normalise that of normalise, env.failed the builders that raise,
\* env.fired the built-in rules whose pattern occurs; rules is Default (the
\* argument left at None) or Given(a rule set)
Pipeline(language, h, rules, env) ==
    IF env.parse = "raise" THEN ParseErrorReport(language, h)
    ELSE IF env.normalise = "raise" THEN Raised("normalise")
    ELSE LET graphs  == BuildGraphs(env.failed)
             ruleset == IF rules = Default
                        THEN load_builtin_rules(env.fired)
                        ELSE rules[1]
         IN  Aggregate(language, h, env.parse = "ok", ruleset, graphs)

(***************************************************************************)
(* the dict operations of the result cache                                 *)
(***************************************************************************)
Keys(d) == {d[i].key : i \in DOMAIN d}

\* h in _cache
Contains(d, k) == k \in Keys(d)

\* _cache[h]
Lookup(d, k) == d[CHOOSE i \in DOMAIN d : d[i].key = k].report

\* next(iter(_cache))
FirstKey(d) == d[1].key

\* del _cache[oldest]
DictDel(d, k) == SelectSeq(d, LAMBDA e : e.key # k)

\* _cache[h] = report: a key already present keeps its place
DictSet(d, k, v) ==
    IF Contains(d, k)
    THEN [i \in DOMAIN d |-> IF d[i].key = k THEN [key |-> k, report |-> v] ELSE d[i]]
    ELSE Append(d, [key |-> k, report |-> v])

\* mutant: eviction starts only once the capacity is exceeded
CacheFull_exceeded(d) == Len(d) > CACHE_MAX

\* _maybe_cache, the test of line 292
CacheFull(d) == Len(d) >= CACHE_MAX

\* _maybe_cache, lines 292-294: the key it deletes, None when it deletes none
Oldest(d) == IF CacheFull(d) THEN FirstKey(d) ELSE None

\* mutant: a full cache evicts and forgets to store
maybe_cache_evict_only(d, h, report) ==
    IF CacheFull(d) THEN DictDel(d, FirstKey(d)) ELSE DictSet(d, h, report)

\* _maybe_cache
maybe_cache(d, h, report) ==
    LET oldest == Oldest(d)
    IN  DictSet(IF oldest # None THEN DictDel(d, oldest) ELSE d, h, report)

\* mutant: a hit moves the entry to the end, as an LRU cache does
CacheHit_lru(d, h) ==
    Append(DictDel(d, h), [key |-> h, report |-> Lookup(d, h)])

\* verify, lines 126-133: what a cache hit does to the cache
CacheHit(d, h) == d

(***************************************************************************)
(* parser.py: the lazy grammar table                                       *)
(***************************************************************************)
Lang == {"python", "javascript"}

\* _get_language run by one caller alone: the table after the call
get_language(table, lang, object) ==
    IF lang \notin DOMAIN table THEN table @@ (lang :> object) ELSE table

(***************************************************************************)
(* meta_ast.py and graphs.py: MetaNode, ProgramGraph, the CFG builder      *)
(***************************************************************************)
\* MetaNode: name is a dotted string, children a sequence of MetaNodes
MetaNode(kind, name, line, scope, children) ==
    [kind |-> kind, name |-> name, line |-> line, scope |-> scope,
     children |-> children]

MetaAST(root) == [kind |-> "meta_ast", root |-> root]

\* ProgramGraph(kind): nodes[i] is the node of id i - 1, as _next_id counts
\* from 0
ProgramGraph(kind) ==
    [kind |-> kind, nodes |-> << >>, edges |-> << >>, entry |-> None, exit |-> None]

GraphNode(id, label, meta, line) ==
    [id |-> id, label |-> label, meta |-> meta, line |-> line]

GraphEdge(src, dst, label) == [src |-> src, dst |-> dst, label |-> label]

\* the id that the next add_node gives out
NextId(g) == Len(g.nodes)

\* ProgramGraph.add_node
add_node(g, label, meta, line) ==
    [g EXCEPT !.nodes = Append(@, GraphNode(NextId(g), label, meta, line))]

\* ProgramGraph.add_edge
add_edge(g, src, dst, label) ==
    [g EXCEPT !.edges = Append(@, GraphEdge(src, dst, label))]

\* for pid in srcs: g.add_edge(pid, dst, label)
RECURSIVE add_edges(_, _, _, _)
add_edges(g, srcs, dst, label) ==
    IF srcs = << >> THEN g
    ELSE add_edges(add_edge(g, Head(srcs), dst, label), Tail(srcs), dst, label)

\* ProgramGraph.successors, as a set
successors(g, nid) == {g.edges[i].dst : i \in {j \in DOMAIN g.edges : g.edges[j].src = nid}}

\* ProgramGraph.reachable_from: the set the breadth-first search visits
RECURSIVE Visit(_, _, _)
Visit(g, visited, queue) ==
    IF queue = {} THEN visited
    ELSE LET seen == visited \cup queue
         IN  Visit(g, seen, UNION {successors(g, n) : n \in queue} \ seen)

reachable_from(g, start) == Visit(g, {}, {start})

STATEMENT_KINDS == {"ASSIGNMENT", "CALL", "RETURN", "IMPORT", "RAISE"}

Blocks(node) == SelectSeq(node.children, LAMBDA c : c.kind = "BLOCK")

\* what _cfg_visit returns, with the graph it has grown
Walk(cfg, ids) == [cfg |-> cfg, ids |-> ids]

RECURSIVE cfg_visit(_, _, _)
RECURSIVE cfg_visit_each(_, _, _)
RECURSIVE cfg_visit_blocks(_, _, _)
RECURSIVE cfg_visit_branches(_, _, _, _)

\* current = prev_ids; for child in children: current = _cfg_visit(child, cfg, current)
cfg_visit_each(children, cfg, prev_ids) ==
    IF children = << >> THEN Walk(cfg, prev_ids)
    ELSE LET w == cfg_visit(Head(children), cfg, prev_ids)
         IN  cfg_visit_each(Tail(children), w.cfg, w.ids)

\* _cfg_visit_block
cfg_visit_block(block, cfg, prev_ids) == cfg_visit_each(block.children, cfg, prev_ids)

\* the loops over the BLOCK children of a LOOP and of a FUNCTION: each block
\* starts where the one before ended
cfg_visit_blocks(blocks, cfg, prev_ids) ==
    IF blocks = << >> THEN Walk(cfg, prev_ids)
    ELSE LET w == cfg_visit_block(Head(blocks), cfg, prev_ids)
         IN  cfg_visit_blocks(Tail(blocks), w.cfg, w.ids)

\* the loop over the BLOCK children of a CONDITIONAL: each block starts at
\* the condition, the exits add up
cfg_visit_branches(blocks, cfg, cond, branch_exits) ==
    IF blocks = << >> THEN Walk(cfg, branch_exits)
    ELSE LET w == cfg_visit_block(Head(blocks), cfg, <<cond>>)
         IN  cfg_visit_branches(Tail(blocks), w.cfg, cond, branch_exits \o w.ids)

\* _cfg_visit
cfg_visit(node, cfg, prev_ids) ==
    LET n == NextId(cfg)
    IN  IF node.kind \in STATEMENT_KINDS
        THEN Walk(add_edges(add_node(cfg, node.kind, node, node.line), prev_ids, n, ""),
                  <<n>>)
        ELSE IF node.kind = "CONDITIONAL"
        THEN LET w == cfg_visit_branches(
                        Blocks(node),
                        add_edges(add_node(cfg, "IF", node, node.line), prev_ids, n, ""),
                        n, << >>)
             IN  Walk(w.cfg, IF Len(Blocks(node)) < 2 THEN Append(w.ids, n) ELSE w.ids)
        ELSE IF node.kind = "LOOP"
        THEN LET w == cfg_visit_blocks(
                        Blocks(node),
                        add_edges(add_node(cfg, "LOOP", node, node.line), prev_ids, n, ""),
                        <<n>>)
             IN  Walk(add_edges(w.cfg, w.ids, n, "back"), <<n>>)
        ELSE IF node.kind = "FUNCTION"
        THEN cfg_visit_blocks(
                Blocks(node),
                add_edges(add_node(cfg, "FUNC", node, node.line), prev_ids, n, ""),
                <<n>>)
        ELSE cfg_visit_each(node.children, cfg, prev_ids)

\* a set of ids in the order a Python set of small ints is iterated
RECURSIVE Ascending(_)
Ascending(S) ==
    IF S = {} THEN << >>
    ELSE LET least == CHOOSE x \in S : \A y \in S : x <= y
         IN  <<least>> \o Ascending(S \ {least})

\* build_cfg, lines 106-108: all_sources - all_targets
leaf_ids(cfg) ==
    {cfg.edges[i].src : i \in DOMAIN cfg.edges} \ {cfg.edges[i].dst : i \in DOMAIN cfg.edges}

\* the graph after the walk gets its EXIT node and the edges into it
CloseCfg(walked, entry, leaves) ==
    LET exit == NextId(walked)
    IN  add_edges([add_node(walked, "EXIT", None, 0) EXCEPT !.exit = exit],
                  Ascending(leaves), exit, "")

\* mutant: without the fallback to ENTRY when no node is a leaf
build_cfg_no_fallback(meta_ast) ==
    LET start  == [add_node(ProgramGraph("cfg"), "ENTRY", None, 0) EXCEPT !.entry = 0]
        walked == cfg_visit(meta_ast.root, start, <<0>>).cfg
    IN  CloseCfg(walked, 0, leaf_ids(walked))

\* build_cfg
build_cfg(meta_ast) ==
    LET start  == [add_node(ProgramGraph("cfg"), "ENTRY", None, 0) EXCEPT !.entry = 0]
        walked == cfg_visit(meta_ast.root, start, <<0>>).cfg
    IN  CloseCfg(walked, 0,
                 IF leaf_ids(walked) = {} THEN {0} ELSE leaf_ids(walked))

(***************************************************************************)
(* graphs.py: the taint flow graph                                         *)
(***************************************************************************)
\* for child in children: result.extend(child.find_all(kind))
RECURSIVE find_all(_, _)
RECURSIVE find_all_each(_, _)
find_all_each(children, kind) ==
    IF children = << >> THEN << >>
    ELSE find_all(Head(children), kind) \o find_all_each(Tail(children), kind)

\* MetaNode.find_all: the node itself, then its descendants, in preorder
find_all(node, kind) ==
    (IF node.kind = kind THEN <<node>> ELSE << >>)
    \o find_all_each(node.children, kind)

\* MetaAST.all_calls
all_calls(meta_ast) == find_all(meta_ast.root, "CALL")

TAINT_SOURCES ==
    {<<"input">>, <<"raw_input">>, <<"os", "environ">>, <<"os", "getenv">>,
     <<"sys", "argv">>, <<"request", "args">>, <<"request", "form">>,
     <<"request", "json">>, <<"prompt">>, <<"readline">>, <<"req", "body">>,
     <<"req", "query">>, <<"req", "params">>}

TAINT_SINKS ==
    {<<"exec">>, <<"eval">>, <<"compile">>, <<"__import__">>, <<"os", "system">>,
     <<"os", "popen">>, <<"subprocess", "call">>, <<"subprocess", "run">>,
     <<"subprocess", "Popen">>, <<"open">>, <<"cursor", "execute">>,
     <<"db", "execute">>, <<"child_process", "exec">>,
     <<"child_process", "spawn">>, <<"innerHTML">>}

\* fname in names or any(fname.endswith("." + s.split(".")[-1])
\*                       for s in names if "." in s)
Listed(fname, names) ==
    \/ fname \in names
    \/ \E s \in names : Len(s) >= 2 /\ EndsWithDot(fname, s[Len(s)])

\* what the first loop of build_taint_graph has gathered
Marked(tfg, sources, sinks) == [tfg |-> tfg, sources |-> sources, sinks |-> sinks]

\* build_taint_graph, lines 317-324: one call, first as a source then as a sink
MarkCall(m, c) ==
    LET asSource == IF Listed(c.name, TAINT_SOURCES)
                    THEN Marked(add_node(m.tfg, "SOURCE", c, c.line),
                                Append(m.sources, NextId(m.tfg)), m.sinks)
                    ELSE m
    IN  IF Listed(c.name, TAINT_SINKS)
        THEN Marked(add_node(asSource.tfg, "SINK", c, c.line),
                    asSource.sources, Append(asSource.sinks, NextId(asSource.tfg)))
        ELSE asSource

RECURSIVE MarkCalls(_, _)
MarkCalls(m, calls) ==
    IF calls = << >> THEN m ELSE MarkCalls(MarkCall(m, Head(calls)), Tail(calls))

\* the node of an id
NodeOf(g, id) == g.nodes[id + 1]

\* mutant: the scopes of the two calls are not compared
Flows_any_scope(g, src, sink) == NodeOf(g, src).line <= NodeOf(g, sink).line

\* build_taint_graph, lines 329-330: the test for an edge
Flows(g, src, sink) ==
    /\ NodeOf(g, src).line <= NodeOf(g, sink).line
    /\ NodeOf(g, src).meta.scope = NodeOf(g, sink).meta.scope

\* build_taint_graph, lines 327-331: for src in sources: for sink in sinks
RECURSIVE LinkSinks(_, _, _)
LinkSinks(g, src, sinks) ==
    IF sinks = << >> THEN g
    ELSE LinkSinks(IF Flows(g, src, Head(sinks))
                   THEN add_edge(g, src, Head(sinks), "taint_flow") ELSE g,
                   src, Tail(sinks))

RECURSIVE LinkSources(_, _, _)
LinkSources(g, sources, sinks) ==
    IF sources = << >> THEN g
    ELSE LinkSources(LinkSinks(g, Head(sources), sinks), Tail(sources), sinks)

\* build_taint_graph
build_taint_graph(meta_ast) ==
    LET m == MarkCalls(Marked(ProgramGraph("tfg"), << >>, << >>), all_calls(meta_ast))
    IN  LinkSources(m.tfg, m.sources, m.sinks)

(***************************************************************************)
(* rules.py: the built-in rules on a MetaAST                               *)
(***************************************************************************)
\* Finding, with the line and the node a built-in rule reports
FindingAt(rule_id, severity, line, meta_node) ==
    [rule_id |-> rule_id, severity |-> severity, line |-> line,
     meta_node |-> meta_node]

\* fname.split(".")[-1] if "." in fname else "": the undotted name, or the
\* empty string
Short(fname) == IF Len(fname) >= 2 THEN <<fname[Len(fname)]>> ELSE << >>

\* _find_calls_by_name, lines 115-121: what one call appends to results
FoundByName(c, names) ==
    (IF c.name \in names THEN <<c>> ELSE << >>)
    \o (IF Short(c.name) \in names THEN <<c>> ELSE << >>)

RECURSIVE find_calls_each(_, _)
find_calls_each(calls, names) ==
    IF calls = << >> THEN << >>
    ELSE FoundByName(Head(calls), names) \o find_calls_each(Tail(calls), names)

\* _find_calls_by_name
find_calls_by_name(meta_ast, names) == find_calls_each(all_calls(meta_ast), names)

\* the set `dangerous` of _rule_shell_injection
Dangerous ==
    {<<"exec">>, <<"eval">>, <<"compile">>, <<"os", "system">>, <<"os", "popen">>,
     <<"subprocess", "call">>, <<"subprocess", "run">>, <<"subprocess", "Popen">>,
     <<"child_process", "exec">>, <<"child_process", "spawn">>}

\* _rule_shell_injection: one finding per entry of the list of found calls
rule_shell_injection(meta_ast) ==
    LET found == find_calls_by_name(meta_ast, Dangerous)
    IN  [i \in DOMAIN found |->
            FindingAt("shell_injection", "error", found[i].line, found[i])]

\* MetaAST.all_functions
all_functions(meta_ast) == find_all(meta_ast.root, "FUNCTION")

\* _check_unreachable_in_block, lines 312-323: the statements of one block,
\* a finding for each one met after a RETURN or RAISE
RECURSIVE ScanBlock(_, _)
ScanBlock(stmts, saw_return) ==
    IF stmts = << >> THEN << >>
    ELSE LET stmt == Head(stmts)
         IN  (IF saw_return
              THEN <<FindingAt("unreachable_code", "warning", stmt.line, stmt)>>
              ELSE << >>)
             \o ScanBlock(Tail(stmts), saw_return \/ stmt.kind \in {"RETURN", "RAISE"})

\* _check_unreachable_in_block: for each child, its statements if it is a
\* BLOCK, then the same walk below the child
RECURSIVE check_unreachable_in_block(_)
RECURSIVE check_unreachable_each(_)
check_unreachable_each(children) ==
    IF children = << >> THEN << >>
    ELSE LET child == Head(children)
         IN  (IF child.kind = "BLOCK" THEN ScanBlock(child.children, FALSE)
              ELSE << >>)
             \o check_unreachable_in_block(child)
             \o check_unreachable_each(Tail(children))

check_unreachable_in_block(node) == check_unreachable_each(node.children)

RECURSIVE check_unreachable_fns(_)
check_unreachable_fns(fns) ==
    IF fns = << >> THEN << >>
    ELSE check_unreachable_in_block(Head(fns)) \o check_unreachable_fns(Tail(fns))

\* _rule_unreachable_code: the walk started at every function of the tree
rule_unreachable_code(meta_ast) == check_unreachable_fns(all_functions(meta_ast))

\* The name of an IMPORT node is the text of the import statement
\* (_extract_name, meta_ast.py:239-241).  Where the words of a name matter
\* each of its parts between dots is the sequence of its words between
\* spaces: "import os.path" is << <<"import", "os">>, <<"path">> >>, the
\* name of the call os.getcwd() is << <<"os">>, <<"getcwd">> >> and that of
\* the variable np is << <<"np">> >>.

\* the names of a list of nodes, a node without a name left out
NamesOf(nodes) == {nodes[i].name : i \in {j \in DOMAIN nodes : nodes[j].name # << >>}}

\* imp_name.split(".")[-1] if "." in imp_name else imp_name
LastPart(name) == IF name = << >> THEN << >> ELSE name[Len(name)]

\* " as " in simple: the places of a word `as` with a word on either side
AsAt(part) == {i \in 2..(Len(part) - 1) : part[i] = "as"}

\* simple.split(" as ")[-1].strip() if " as " in simple else simple
AfterAs(part) ==
    IF AsAt(part) # {}
    THEN SubSeq(part, (CHOOSE i \in AsAt(part) : \A j \in AsAt(part) : j <= i) + 1,
                Len(part))
    ELSE part

\* _rule_unused_import, lines 186-199: the findings of the imports in turn
RECURSIVE unused_import_each(_, _)
unused_import_each(imports, used_names) ==
    IF imports = << >> THEN << >>
    ELSE LET imp    == Head(imports)
             simple == AfterAs(LastPart(imp.name))
         IN  (IF simple # << >> /\ <<simple>> \notin used_names
              THEN <<FindingAt("unused_import", "warning", imp.line, imp)>>
              ELSE << >>)
             \o unused_import_each(Tail(imports), used_names)

\* _rule_unused_import
rule_unused_import(meta_ast) ==
    LET imports   == find_all(meta_ast.root, "IMPORT")
        all_vars  == NamesOf(find_all(meta_ast.root, "VARIABLE"))
        bases     == {<<name[1]>> : name \in NamesOf(all_calls(meta_ast))}
    IN  unused_import_each(imports, all_vars \cup bases)

(***************************************************************************)
(* graphs.py: the data flow graph                                          *)
(***************************************************************************)
\* the string of a dotted name: its parts joined by dots
RECURSIVE Str(_)
Str(name) ==
    IF name = << >> THEN ""
    ELSE IF Len(name) = 1 THEN name[1]
    ELSE name[1] \o "." \o Str(Tail(name))

DFGFact(variable, kind, line, node_id) ==
    [variable |-> variable, kind |-> kind, line |-> line, node_id |-> node_id]

\* the graph and the list of facts that _dfg_collect fills
Collected(dfg, facts) == [dfg |-> dfg, facts |-> facts]

\* dfg.add_node(label=f"{prefix}:{name}", ...) followed by facts.append(...)
AddFact(st, prefix, kind, name, meta, line) ==
    Collected(add_node(st.dfg, prefix \o ":" \o Str(name), meta, line),
              Append(st.facts, DFGFact(name, kind, line, NextId(st.dfg))))

\* _dfg_collect_uses
RECURSIVE dfg_collect_uses(_, _)
RECURSIVE dfg_collect_uses_each(_, _)
dfg_collect_uses_each(children, st) ==
    IF children = << >> THEN st
    ELSE dfg_collect_uses_each(Tail(children), dfg_collect_uses(Head(children), st))

dfg_collect_uses(node, st) ==
    dfg_collect_uses_each(node.children,
        IF node.kind = "VARIABLE" /\ node.name # << >>
        THEN AddFact(st, "use", "use", node.name, node, node.line)
        ELSE st)

\* _dfg_collect, lines 261-264: the parameters of one PARAMETER child
RECURSIVE dfg_params(_, _)
dfg_params(params, st) ==
    IF params = << >> THEN st
    ELSE LET param == Head(params)
         IN  dfg_params(Tail(params),
                 IF param.kind = "VARIABLE" /\ param.name # << >>
                 THEN AddFact(st, "param", "def", param.name, param, param.line)
                 ELSE st)

\* _dfg_collect, lines 259-264: the children of a FUNCTION
RECURSIVE dfg_parameters(_, _)
dfg_parameters(children, st) ==
    IF children = << >> THEN st
    ELSE dfg_parameters(Tail(children),
             IF Head(children).kind = "PARAMETER"
             THEN dfg_params(Head(children).children, st)
             ELSE st)

\* _dfg_collect, lines 242-264: what the node itself adds
dfg_collect_node(node, st) ==
    IF node.kind = "ASSIGNMENT"
    THEN IF node.children = << >> THEN st
         ELSE LET lhs == Head(node.children)
              IN  dfg_collect_uses_each(Tail(node.children),
                      IF lhs.kind = "VARIABLE" /\ lhs.name # << >>
                      THEN AddFact(st, "def", "def", lhs.name, node, node.line)
                      ELSE st)
    ELSE IF node.kind = "VARIABLE" /\ node.name # << >>
    THEN AddFact(st, "use", "use", node.name, node, node.line)
    ELSE IF node.kind = "FUNCTION" THEN dfg_parameters(node.children, st)
    ELSE st

\* _dfg_collect: the node, then every child (lines 266-267)
RECURSIVE dfg_collect(_, _)
RECURSIVE dfg_collect_each(_, _)
dfg_collect_each(children, st) ==
    IF children = << >> THEN st
    ELSE dfg_collect_each(Tail(children), dfg_collect(Head(children), st))

dfg_collect(node, st) == dfg_collect_each(node.children, dfg_collect_node(node, st))

\* mutant: a definition reaches every use of the variable, earlier ones too
DefReaches_any_line(d, f) == TRUE

\* build_dfg, line 234
DefReaches(d, f) == d.line <= f.line

\* build_dfg, lines 233-235: for d in defs[f.variable]
RECURSIVE LinkDefs(_, _, _)
LinkDefs(dfg, ds, f) ==
    IF ds = << >> THEN dfg
    ELSE LinkDefs(IF DefReaches(Head(ds), f)
                  THEN add_edge(dfg, Head(ds).node_id, f.node_id, Str(f.variable))
                  ELSE dfg,
                  Tail(ds), f)

\* build_dfg, lines 231-235: for f in facts; defs[v] is the list of the def
\* facts of v in the order of facts
RECURSIVE LinkUses(_, _, _)
LinkUses(dfg, fs, facts) ==
    IF fs = << >> THEN dfg
    ELSE LET f  == Head(fs)
             ds == SelectSeq(facts, LAMBDA d : d.kind = "def" /\ d.variable = f.variable)
         IN  LinkUses(IF f.kind = "use" THEN LinkDefs(dfg, ds, f) ELSE dfg,
                      Tail(fs), facts)

\* build_dfg
build_dfg(meta_ast) ==
    LET st == dfg_collect(meta_ast.root, Collected(ProgramGraph("dfg"), << >>))
    IN  LinkUses(st.dfg, st.facts, st.facts)

(***************************************************************************)
(* graphs.py: the call graph                                               *)
(***************************************************************************)
\* the graph and the dict func_nodes (function name -> id of its node)
Registered_fns(cg, func_nodes) == [cg |-> cg, func_nodes |-> func_nodes]

\* build_call_graph, lines 350-353: a node per named function; a later
\* function of the same name takes the name's place in func_nodes
RECURSIVE RegisterFunctions(_, _)
RegisterFunctions(fns, st) ==
    IF fns = << >> THEN st
    ELSE LET fn == Head(fns)
         IN  RegisterFunctions(Tail(fns),
                 IF fn.name # << >>
                 THEN Registered_fns(add_node(st.cg, Str(fn.name), fn, fn.line),
                                     (fn.name :> NextId(st.cg)) @@ st.func_nodes)
                 ELSE st)

\* callee_name.split(".")[-1] if "." in callee_name else callee_name
SimpleName(callee_name) ==
    IF Len(callee_name) >= 2 THEN <<callee_name[Len(callee_name)]>> ELSE callee_name

\* build_call_graph, lines 360-365: for call in fn.calls
RECURSIVE LinkCalls(_, _, _, _)
LinkCalls(cg, caller, calls, func_nodes) ==
    IF calls = << >> THEN cg
    ELSE LET simple_name == SimpleName(Head(calls).name)
         IN  LinkCalls(IF simple_name \in DOMAIN func_nodes
                       THEN add_edge(cg, caller, func_nodes[simple_name], "calls")
                       ELSE cg,
                       caller, Tail(calls), func_nodes)

\* build_call_graph, lines 356-365: for fn in meta_ast.all_functions
RECURSIVE LinkFunctions(_, _, _)
LinkFunctions(cg, fns, func_nodes) ==
    IF fns = << >> THEN cg
    ELSE LET fn == Head(fns)
         IN  LinkFunctions(IF fn.name = << >> \/ fn.name \notin DOMAIN func_nodes
                           THEN cg
                           ELSE LinkCalls(cg, func_nodes[fn.name],
                                          find_all(fn, "CALL"), func_nodes),
                           Tail(fns), func_nodes)

\* build_call_graph
build_call_graph(meta_ast) ==
    LET st == RegisterFunctions(all_functions(meta_ast),
                                Registered_fns(ProgramGraph("call_graph"), << >>))
    IN  LinkFunctions(st.cg, all_functions(meta_ast), st.func_nodes)

(***************************************************************************)
(* history                                                                 *)
(***************************************************************************)
Range(s) == {s[i] : i \in DOMAIN s}

\* the keys in insertion order after key k was deleted, after k was stored
TrackDel(ins, k) == SelectSeq(ins, LAMBDA x : x # k)
TrackSet(ins, k) == IF k \in Range(ins) THEN ins ELSE Append(ins, k)

\* the keys in insertion order, after oldest was deleted and h stored
Track(ins, oldest, h) == TrackSet(TrackDel(ins, oldest), h)

NoRet == [kind |-> "none"]

Threads == {"t1", "t2"}

\* the locals of a thread that is not inside verify
NoLoc ==
    [code |-> None, use_cache |-> FALSE, h |-> None, object |-> 0,
     report |-> NoRet, oldest |-> None, result |-> NoRet]

NoGiven == [kind |-> "none"]

\* the rules argument of a verify call and how the stages behave on its code
GivenVerify(rules, env) == [kind |-> "verify", rules |-> rules, env |-> env]

NoCall ==
    [made |-> FALSE, code |-> None, language |-> None, filename |-> NoFile,
     resolved |-> None, use_cache |-> FALSE, h |-> None, hit |-> FALSE,
     len_before |-> 0, evicted |-> None, eldest |-> None]

(***************************************************************************)
(* verify called by a single caller                                        *)
(***************************************************************************)
Init ==
    /\ cache = << >>
    /\ inserted = << >>
    /\ LANGUAGES = << >>
    /\ built = [l \in Lang |-> 0]
    /\ call = NoCall
    /\ ret = NoRet
    /\ prev = [call |-> NoCall, ret |-> NoRet]
    /\ given = NoGiven
    /\ pc = [t \in Threads |-> "idle"]
    /\ loc = [t \in Threads |-> NoLoc]

\* verify(code, language, filename=filename, rules=rules, use_cache=use_cache)
\* on an input on which the stages behave as env says.  A parse that raises
\* does so past _get_language (in the tree walk), so every cache miss
\* initialises the grammar of the language.
Verify(code, language, filename, rules, use_cache, env) ==
    LET lang   == ResolveLanguage(language, filename)
        h      == code_hash(code, lang)
        hit    == use_cache /\ Contains(cache, h)
        ts     == resolve_lang(lang)
        out    == Pipeline(lang, h, rules, env)
        stores == ~hit /\ out.kind = "report"
        oldest == IF stores THEN Oldest(cache) ELSE None
    IN  /\ ret' = IF hit THEN Lookup(cache, h) ELSE out
        /\ cache' = IF hit THEN CacheHit(cache, h)
                    ELSE IF stores THEN maybe_cache(cache, h, out)
                    ELSE cache
        /\ inserted' = IF stores THEN Track(inserted, oldest, h) ELSE inserted
        /\ LANGUAGES' = IF hit THEN LANGUAGES
                        ELSE get_language(LANGUAGES, ts, built[ts] + 1)
        /\ built' = IF hit \/ ts \in DOMAIN LANGUAGES THEN built
                    ELSE [built EXCEPT ![ts] = @ + 1]
        /\ call' = [made |-> TRUE, code |-> code, language |-> language,
                    filename |-> filename, resolved |-> lang,
                    use_cache |-> use_cache, h |-> h, hit |-> hit,
                    len_before |-> Len(cache), evicted |-> oldest,
                    eldest |-> IF inserted = << >> THEN None ELSE Head(inserted)]
        /\ UNCHANGED <<pc, loc>>

(***************************************************************************)
(* Spec: a fresh engine, one call of verify under every rule set and every *)
(* behaviour of the stages, then repeated calls on the same code           *)
(***************************************************************************)
\* the custom rules: per severity one that returns 1..MaxPerRule findings,
\* and four that contribute nothing
RulePool ==
    {Rule("custom_" \o s, s, {}, TRUE,
          Always(Returns(Repeat(Finding("custom_" \o s, s), n)))) :
        s \in Severity, n \in 1..MaxPerRule}
    \cup {Rule("silent", "error", {}, TRUE, Always(Returns(<< >>))),
          Rule("broken", "error", {}, TRUE, Always(Raises)),
          Rule("disabled", "error", {}, FALSE,
               Always(Returns(<<Finding("disabled", "error")>>))),
          Rule("js_only", "warning", {"javascript"}, TRUE,
               Always(Returns(<<Finding("js_only", "warning")>>)))}

CustomRuleSets == UNION {[1..n -> RulePool] : n \in 0..MaxRules}

ParseOutcomes == {"ok", "has_errors", "raise"}

FiredSets == SUBSET Range(BuiltinIds)

Env(parse, normalise, failed, fired) ==
    [parse |-> parse, normalise |-> normalise, failed |-> failed, fired |-> fired]

\* the first call, with a custom rule set
FirstCallCustom ==
    /\ ~call.made
    /\ \E language \in Lang, rules \in CustomRuleSets, use_cache \in BOOLEAN,
          parse \in ParseOutcomes, normalise \in {"ok", "raise"},
          failed \in {{}, {"tfg"}, GraphKinds} :
            Verify("c1", language, NoFile, Given(rules), use_cache,
                   Env(parse, normalise, failed, {}))
    /\ UNCHANGED <<prev, given>>

\* the first call, with the built-in rules
FirstCallBuiltin ==
    /\ ~call.made
    /\ \E language \in Lang, fired \in FiredSets, use_cache \in BOOLEAN,
          parse \in ParseOutcomes, normalise \in {"ok", "raise"},
          failed \in SUBSET GraphKinds :
            Verify("c1", language, NoFile, Default, use_cache,
                   Env(parse, normalise, failed, fired))
    /\ UNCHANGED <<prev, given>>

\* a later call on the same code and language
RepeatCall ==
    /\ call.made
    /\ \E rules \in {Default, Given(<< >>)}, use_cache \in BOOLEAN,
          parse \in {"ok", "has_errors"} :
            Verify(call.code, call.language, NoFile, rules, use_cache,
                   Env(parse, "ok", {}, {}))
    /\ UNCHANGED <<prev, given>>

Next == FirstCallCustom \/ FirstCallBuiltin \/ RepeatCall

Spec == Init /\ [][Next]_vars

(***************************************************************************)
(* SpecCache: any sequence of calls on more codes than the cache holds     *)
(***************************************************************************)
Codes == {"c" \o ToString(i) : i \in 1..(CACHE_MAX + 1)}

CacheCall ==
    \E code \in Codes, use_cache \in BOOLEAN,
       rules \in {Given(<< >>), Given(<<Rule("custom_error", "error", {}, TRUE,
                     Always(Returns(<<Finding("custom_error", "error")>>)))>>)} :
        /\ Verify(code, "python", NoFile, rules, use_cache,
                  Env("ok", "ok", {}, {}))
        /\ prev' = [call |-> call, ret |-> ret]
        /\ given' = GivenVerify(rules, Env("ok", "ok", {}, {}))

NextCache == CacheCall

SpecCache == Init /\ [][NextCache]_vars

(***************************************************************************)
(* SpecThreads: verify called from several threads.  A thread may be       *)
(* descheduled between any two statements, so each access of the shared    *)
(* _cache and _LANGUAGES is a step of its own; the work on the call's own  *)
(* data (parsing, normalising, graphs, rules, aggregation) is one step.    *)
(***************************************************************************)
Goto(t, label) == pc' = [pc EXCEPT ![t] = label]

SetLoc(t, record) == loc' = [loc EXCEPT ![t] = record]

\* the call ends: what it returned or raised
Finish(t, result) ==
    /\ Goto(t, "idle")
    /\ SetLoc(t, [loc[t] EXCEPT !.result = result])

\* verify, lines 117-125: a call starts, the key is computed
T_Call(t) ==
    /\ pc[t] = "idle"
    /\ \E code \in Codes, use_cache \in BOOLEAN :
        SetLoc(t, [NoLoc EXCEPT !.code = code, !.use_cache = use_cache,
                                !.h = code_hash(code, "python")])
    /\ Goto(t, "lookup")
    /\ UNCHANGED <<cache, inserted, LANGUAGES, built, call, ret, prev, given>>

\* verify, line 126: use_cache and h in _cache
T_Lookup(t) ==
    /\ pc[t] = "lookup"
    /\ IF loc[t].use_cache /\ Contains(cache, loc[t].h)
       THEN Goto(t, "return_cached")
       ELSE Goto(t, "get_language")
    /\ UNCHANGED <<cache, inserted, LANGUAGES, built, call, ret, prev, given, loc>>

\* verify, line 133: return _cache[h]; KeyError when the key is gone
T_ReturnCached(t) ==
    /\ pc[t] = "return_cached"
    /\ IF Contains(cache, loc[t].h)
       THEN Finish(t, Lookup(CacheHit(cache, loc[t].h), loc[t].h))
       ELSE Finish(t, Raised("KeyError"))
    /\ UNCHANGED <<cache, inserted, LANGUAGES, built, call, ret, prev, given>>

\* _get_language, line 34: lang not in _LANGUAGES
T_GetLanguage(t) ==
    /\ pc[t] = "get_language"
    /\ IF resolve_lang("python") \notin DOMAIN LANGUAGES
       THEN Goto(t, "construct")
       ELSE Goto(t, "pipeline")
    /\ UNCHANGED <<cache, inserted, LANGUAGES, built, call, ret, prev, given, loc>>

\* _get_language, lines 35-43: the right-hand side Language(ptr)
T_Construct(t) ==
    /\ pc[t] = "construct"
    /\ built' = [built EXCEPT ![resolve_lang("python")] = @ + 1]
    /\ SetLoc(t, [loc[t] EXCEPT !.object = built[resolve_lang("python")] + 1])
    /\ Goto(t, "store_language")
    /\ UNCHANGED <<cache, inserted, LANGUAGES, call, ret, prev, given>>

\* _get_language, line 43: _LANGUAGES[lang] = ...
T_StoreLanguage(t) ==
    /\ pc[t] = "store_language"
    /\ LANGUAGES' = [l \in DOMAIN LANGUAGES \cup {resolve_lang("python")} |->
                        IF l = resolve_lang("python") THEN loc[t].object
                        ELSE LANGUAGES[l]]
    /\ Goto(t, "pipeline")
    /\ UNCHANGED <<cache, inserted, built, call, ret, prev, given, loc>>

\* verify, lines 135-234, from the parse on (parse_source past its call of
\* _get_language): the report is built from the call's own data
T_Pipeline(t) ==
    /\ pc[t] = "pipeline"
    /\ SetLoc(t, [loc[t] EXCEPT !.report =
                    Pipeline("python", loc[t].h, Default, Env("ok", "ok", {}, {}))])
    /\ Goto(t, "cache_len")
    /\ UNCHANGED <<cache, inserted, LANGUAGES, built, call, ret, prev, given>>

\* _maybe_cache, line 292: len(_cache) >= _CACHE_MAX
T_CacheLen(t) ==
    /\ pc[t] = "cache_len"
    /\ IF CacheFull(cache) THEN Goto(t, "oldest") ELSE Goto(t, "store")
    /\ UNCHANGED <<cache, inserted, LANGUAGES, built, call, ret, prev, given, loc>>

\* _maybe_cache, line 294: oldest = next(iter(_cache)); StopIteration when
\* the dict is empty
T_Oldest(t) ==
    /\ pc[t] = "oldest"
    /\ IF cache = << >>
       THEN Finish(t, Raised("StopIteration"))
       ELSE /\ SetLoc(t, [loc[t] EXCEPT !.oldest = FirstKey(cache)])
            /\ Goto(t, "delete")
    /\ UNCHANGED <<cache, inserted, LANGUAGES, built, call, ret, prev, given>>

\* _maybe_cache, line 295: del _cache[oldest]; KeyError when the key is gone
T_Delete(t) ==
    /\ pc[t] = "delete"
    /\ IF Contains(cache, loc[t].oldest)
       THEN /\ cache' = DictDel(cache, loc[t].oldest)
            /\ inserted' = TrackDel(inserted, loc[t].oldest)
            /\ Goto(t, "store")
            /\ UNCHANGED loc
       ELSE /\ Finish(t, Raised("KeyError"))
            /\ UNCHANGED <<cache, inserted>>
    /\ UNCHANGED <<LANGUAGES, built, call, ret, prev, given>>

\* _maybe_cache, line 296, and the return of verify
T_Store(t) ==
    /\ pc[t] = "store"
    /\ cache' = DictSet(cache, loc[t].h, loc[t].report)
    /\ inserted' = TrackSet(inserted, loc[t].h)
    /\ Finish(t, loc[t].report)
    /\ UNCHANGED <<LANGUAGES, built, call, ret, prev, given>>

NextThreads ==
    \E t \in Threads :
        \/ T_Call(t)
        \/ T_Lookup(t)
        \/ T_ReturnCached(t)
        \/ T_GetLanguage(t)
        \/ T_Construct(t)
        \/ T_StoreLanguage(t)
        \/ T_Pipeline(t)
        \/ T_CacheLen(t)
        \/ T_Oldest(t)
        \/ T_Delete(t)
        \/ T_Store(t)

SpecThreads == Init /\ [][NextThreads]_vars

(***************************************************************************)
(* SpecRules: a fresh engine and one call of verify on a chain of rules    *)
(* with distinct roles, under every behaviour of the parser, the           *)
(* normaliser and the four graph builders                                  *)
(***************************************************************************)
GraphOrder == <<"cfg", "dfg", "tfg", "call_graph">>

\* a custom rule that reports each graph it is handed
ProbeRule ==
    Rule("probe", "hint", {}, TRUE,
         [graphs \in GraphMaps |->
            Returns([i \in 1..Len(SelectSeq(GraphOrder, LAMBDA k : k \in graphs)) |->
                Finding("sees_" \o SelectSeq(GraphOrder, LAMBDA k : k \in graphs)[i],
                        "hint")])])

\* a custom rule that indexes the graph map: graphs["cfg"] is a KeyError
\* when the cfg builder failed
NeedsCfgRule ==
    Rule("needs_cfg", "warning", {}, TRUE,
         [graphs \in GraphMaps |->
            IF "cfg" \in graphs
            THEN Returns(<<Finding("needs_cfg", "warning")>>)
            ELSE Raises])

ChainPool ==
    {Rule("r_error", "error", {}, TRUE,
          Always(Returns(<<Finding("r_error", "error")>>))),
     Rule("r_info", "info", {}, TRUE,
          Always(Returns(<<Finding("r_info", "info"), Finding("r_info", "info")>>))),
     Rule("broken", "error", {}, TRUE, Always(Raises)),
     Rule("disabled", "error", {}, FALSE,
          Always(Returns(<<Finding("disabled", "error")>>))),
     Rule("py_only", "warning", {"python"}, TRUE,
          Always(Returns(<<Finding("py_only", "warning")>>))),
     NeedsCfgRule}

RuleChains == UNION {[1..n -> ChainPool] : n \in 0..MaxChain}

\* verify on a chain of custom rules
ChainCall ==
    /\ ~call.made
    /\ \E language \in Lang, rules \in RuleChains, use_cache \in BOOLEAN,
          parse \in ParseOutcomes, normalise \in {"ok", "raise"},
          failed \in {{}, {"cfg"}} :
            /\ Verify("c1", language, NoFile, Given(rules), use_cache,
                      Env(parse, normalise, failed, {}))
            /\ given' = GivenVerify(Given(rules), Env(parse, normalise, failed, {}))
    /\ UNCHANGED prev

\* verify with the built-in rules, or with the probe among custom rules,
\* while any of the graph builders raise
GraphCall ==
    /\ ~call.made
    /\ \E language \in Lang, failed \in SUBSET GraphKinds, fired \in FiredSets,
          parse \in {"ok", "has_errors"},
          rules \in {Default, Given(<<ProbeRule>>),
                     Given(<<NeedsCfgRule, ProbeRule>>)} :
            /\ rules # Default => fired = {}
            /\ Verify("c1", language, NoFile, rules, TRUE,
                      Env(parse, "ok", failed, fired))
            /\ given' = GivenVerify(rules, Env(parse, "ok", failed, fired))
    /\ UNCHANGED prev

NextRules == ChainCall \/ GraphCall

SpecRules == Init /\ [][NextRules]_vars

(***************************************************************************)
(* SpecRuleSet: a RuleSet is created, rules are registered with add, and   *)
(* enabled_rules is asked for a language                                   *)
(***************************************************************************)
RuleSetPool ==
    ChainPool
    \cup {Rule("js_only", "warning", {"javascript"}, TRUE,
               Always(Returns(<<Finding("js_only", "warning")>>))),
          Rule("py_disabled", "warning", {"python"}, FALSE,
               Always(Returns(<<Finding("py_disabled", "warning")>>)))}

\* the language strings enabled_rules is asked for; "" is the default
LanguageStrings == {"python", "javascript", "py", ""}

RuleSet(rules) == [kind |-> "ruleset", rules |-> rules]

\* RuleSet()
RuleSetNew ==
    /\ given = NoGiven
    /\ given' = RuleSet(<< >>)
    /\ UNCHANGED <<cache, inserted, LANGUAGES, built, call, ret, prev, pc, loc>>

\* RuleSet.add
RuleSetAdd ==
    /\ given.kind = "ruleset"
    /\ Len(given.rules) < MaxChain
    /\ \E rule \in RuleSetPool : given' = RuleSet(Append(given.rules, rule))
    /\ ret' = NoRet
    /\ UNCHANGED <<cache, inserted, LANGUAGES, built, call, prev, pc, loc>>

\* RuleSet.enabled_rules(language)
RuleSetEnabledRules ==
    /\ given.kind = "ruleset"
    /\ \E language \in LanguageStrings :
        ret' = [kind |-> "rules", language |-> language,
                rules |-> enabled_rules(given.rules, language)]
    /\ UNCHANGED <<cache, inserted, LANGUAGES, built, call, prev, given, pc, loc>>

NextRuleSet == RuleSetNew \/ RuleSetAdd \/ RuleSetEnabledRules

SpecRuleSet == Init /\ [][NextRuleSet]_vars

(***************************************************************************)
(* SpecLang: calls of verify that name the file the code comes from        *)
(***************************************************************************)
\* app.py, stub.pyi, app.js, app.test.jsx, lib.mjs, the hidden file .py,
\* and names without a known extension: notes.txt, Makefile, js, app.py.bak
FileNames ==
    {NoFile, <<"app", "py">>, <<"stub", "pyi">>, <<"app", "js">>,
     <<"app", "test", "jsx">>, <<"lib", "mjs">>, <<"", "py">>,
     <<"notes", "txt">>, <<"Makefile">>, <<"js">>, <<"app", "py", "bak">>}

LangRules ==
    <<Rule("py_only", "warning", {"python"}, TRUE,
           Always(Returns(<<Finding("py_only", "warning")>>))),
      Rule("js_only", "warning", {"javascript"}, TRUE,
           Always(Returns(<<Finding("js_only", "warning")>>)))>>

LangCall ==
    \E language \in Lang, filename \in FileNames, use_cache \in BOOLEAN :
        /\ Verify("c1", language, filename, Given(LangRules), use_cache,
                  Env("ok", "ok", {}, {}))
        /\ given' = GivenVerify(Given(LangRules), Env("ok", "ok", {}, {}))
        /\ prev' = [call |-> call, ret |-> ret]

NextLang == LangCall

SpecLang == Init /\ [][NextLang]_vars

(***************************************************************************)
(* SpecAlias: calls of verify with the built-in rules that spell the       *)
(* language in each way _resolve_lang accepts                              *)
(***************************************************************************)
\* the spellings in the mapping of _resolve_lang
Aliases == {"python", "py", "javascript", "js"}

\* two programs: "c1" is `import os` followed by `eval(x)`, "c2" is `eval(x)`
AliasCodes == {"c1", "c2"}

\* how the stages behave on a program depends on the program and on the
\* grammar it is parsed with: `import os` is an unused import in Python and
\* a syntax error in JavaScript; eval(x) is a dangerous call in both
StagesOn(code, grammar) ==
    IF code = "c1"
    THEN IF grammar = "python"
         THEN Env("ok", "ok", {}, {"shell_injection", "unused_import"})
         ELSE Env("has_errors", "ok", {}, {"shell_injection"})
    ELSE Env("ok", "ok", {}, {"shell_injection"})

AliasCall ==
    \E code \in AliasCodes, language \in Aliases, use_cache \in BOOLEAN :
        /\ Verify(code, language, NoFile, Default, use_cache,
                  StagesOn(code, resolve_lang(language)))
        /\ given' = GivenVerify(Default, StagesOn(code, resolve_lang(language)))
        /\ prev' = [call |-> call, ret |-> ret]

NextAlias == AliasCall

SpecAlias == Init /\ [][NextAlias]_vars

(***************************************************************************)
(* SpecCfg: build_cfg applied to the MetaAST of a program                  *)
(***************************************************************************)
\* the kinds of node that _cfg_visit tells apart below the root: a
\* statement, the three compound statements and the BLOCK they look for
\* (a BLOCK anywhere else is walked like any other node)
CfgKinds == {"ASSIGNMENT", "CONDITIONAL", "LOOP", "FUNCTION", "BLOCK"}

Stmt(kind, children) == MetaNode(kind, << >>, 1, "<module>", children)

\* the sequences of trees that have n nodes together
RECURSIVE Forests(_)
Forests(n) ==
    IF n = 0 THEN {<< >>}
    ELSE UNION {
            {<<Stmt(kind, below)>> \o after :
                kind \in CfgKinds, below \in Forests(k - 1), after \in Forests(n - k)} :
            k \in 1..n}

\* larger programs: an if with both branches and a statement after it, a
\* function whose loop is followed by a return, a function in a function,
\* and a loop whose body ends in an if without else
CfgSamples ==
    {<<Stmt("CONDITIONAL", <<Stmt("BLOCK", <<Stmt("ASSIGNMENT", << >>)>>),
                             Stmt("BLOCK", <<Stmt("CALL", << >>)>>)>>),
       Stmt("ASSIGNMENT", << >>)>>,
     <<Stmt("FUNCTION", <<Stmt("BLOCK",
            <<Stmt("LOOP", <<Stmt("BLOCK", <<Stmt("ASSIGNMENT", << >>)>>)>>),
              Stmt("RETURN", << >>)>>)>>)>>,
     <<Stmt("FUNCTION", <<Stmt("BLOCK",
            <<Stmt("FUNCTION", <<Stmt("BLOCK", <<Stmt("RETURN", << >>)>>)>>),
              Stmt("CALL", << >>)>>)>>)>>,
     <<Stmt("LOOP", <<Stmt("BLOCK",
            <<Stmt("ASSIGNMENT", << >>),
              Stmt("CONDITIONAL", <<Stmt("BLOCK", <<Stmt("RAISE", << >>)>>)>>)>>)>>),
       Stmt("IMPORT", << >>)>>}

CfgTrees ==
    {MetaAST(Stmt("MODULE", f)) :
        f \in UNION {Forests(n) : n \in 0..MaxNodes} \cup CfgSamples}

\* normalise returns the MetaAST of some program
CfgNormalised ==
    /\ given = NoGiven
    /\ given' \in CfgTrees
    /\ UNCHANGED <<cache, inserted, LANGUAGES, built, call, ret, prev, pc, loc>>

\* build_cfg(meta_ast)
BuildCfg ==
    /\ given.kind = "meta_ast"
    /\ ret = NoRet
    /\ ret' = build_cfg(given)
    /\ UNCHANGED <<cache, inserted, LANGUAGES, built, call, prev, given, pc, loc>>

NextCfg == CfgNormalised \/ BuildCfg

SpecCfg == Init /\ [][NextCfg]_vars

(***************************************************************************)
(* SpecTaint: build_taint_graph applied to the MetaAST of a program        *)
(***************************************************************************)
\* input(), cfg.getenv() (a source by its suffix), eval(), sh.system() (a
\* sink by its suffix), getenv() and print() (neither)
CallNames ==
    {<<"input">>, <<"cfg", "getenv">>, <<"eval">>, <<"sh", "system">>,
     <<"getenv">>, <<"print">>}

ModuleScope == "<module>"

\* _normalise_node: the scope of what is inside the function f
FunctionScope == "<module>.f"

CallNode(name, line, scope, args) == MetaNode("CALL", name, line, scope, args)

\* a call at module level, or the same call inside a function f
CallSites ==
    {CallNode(name, line, ModuleScope, << >>) :
        name \in CallNames, line \in 1..MaxLine}
    \cup {MetaNode("FUNCTION", <<"f">>, line, ModuleScope,
                   <<CallNode(name, line, FunctionScope, << >>)>>) :
            name \in CallNames, line \in 1..MaxLine}

\* a larger program:
\*   eval(x); y = input(); def f(): eval(input()); sh.system(cfg.getenv())
TaintSamples ==
    {<<CallNode(<<"eval">>, 1, ModuleScope, << >>),
       CallNode(<<"input">>, 2, ModuleScope, << >>),
       MetaNode("FUNCTION", <<"f">>, 3, ModuleScope,
                <<CallNode(<<"eval">>, 3, FunctionScope,
                           <<CallNode(<<"input">>, 3, FunctionScope, << >>)>>)>>),
       CallNode(<<"sh", "system">>, 4, ModuleScope,
                <<CallNode(<<"cfg", "getenv">>, 4, ModuleScope, << >>)>>)>>}

TaintTrees ==
    {MetaAST(MetaNode("MODULE", << >>, 1, ModuleScope, f)) :
        f \in UNION {[1..n -> CallSites] : n \in 0..MaxCalls} \cup TaintSamples}

\* normalise returns the MetaAST of some program
TaintNormalised ==
    /\ given = NoGiven
    /\ given' \in TaintTrees
    /\ UNCHANGED <<cache, inserted, LANGUAGES, built, call, ret, prev, pc, loc>>

\* build_taint_graph(meta_ast)
BuildTaintGraph ==
    /\ given.kind = "meta_ast"
    /\ ret = NoRet
    /\ ret' = build_taint_graph(given)
    /\ UNCHANGED <<cache, inserted, LANGUAGES, built, call, prev, given, pc, loc>>

NextTaint == TaintNormalised \/ BuildTaintGraph

SpecTaint == Init /\ [][NextTaint]_vars

(***************************************************************************)
(* SpecShell: the shell_injection rule applied to the MetaAST of a program *)
(***************************************************************************)
\* exec() and os.system() (dangerous by their full name), sh.exec() (by its
\* suffix), child_process.exec() (by both), sh.system() and print() (by
\* neither)
ShellNames ==
    {<<"exec">>, <<"os", "system">>, <<"sh", "exec">>,
     <<"child_process", "exec">>, <<"sh", "system">>, <<"print">>}

ShellSites ==
    {CallNode(name, line, ModuleScope, << >>) :
        name \in ShellNames, line \in 1..MaxLine}

\* a larger program: exec(sh.exec(print())); def f(): os.system(); exec()
ShellSamples ==
    {<<CallNode(<<"exec">>, 1, ModuleScope,
                <<CallNode(<<"sh", "exec">>, 1, ModuleScope,
                           <<CallNode(<<"print">>, 1, ModuleScope, << >>)>>)>>),
       MetaNode("FUNCTION", <<"f">>, 2, ModuleScope,
                <<CallNode(<<"os", "system">>, 3, FunctionScope, << >>),
                  CallNode(<<"exec">>, 4, FunctionScope, << >>)>>)>>}

ShellTrees ==
    {MetaAST(MetaNode("MODULE", << >>, 1, ModuleScope, f)) :
        f \in UNION {[1..n -> ShellSites] : n \in 0..MaxCalls} \cup ShellSamples}

RuleFindingsOf(rule, findings) ==
    [kind |-> "findings", rule |-> rule, findings |-> findings]

\* normalise returns the MetaAST of some program
ShellNormalised ==
    /\ given = NoGiven
    /\ given' \in ShellTrees
    /\ UNCHANGED <<cache, inserted, LANGUAGES, built, call, ret, prev, pc, loc>>

\* _rule_shell_injection(meta_ast, graphs)
RuleShellInjection ==
    /\ given.kind = "meta_ast"
    /\ ret = NoRet
    /\ ret' = RuleFindingsOf("shell_injection", rule_shell_injection(given))
    /\ UNCHANGED <<cache, inserted, LANGUAGES, built, call, prev, given, pc, loc>>

NextShell == ShellNormalised \/ RuleShellInjection

SpecShell == Init /\ [][NextShell]_vars

(***************************************************************************)
(* SpecUnreachable: the unreachable_code rule applied to the MetaAST of a  *)
(* program                                                                 *)
(***************************************************************************)
\* return, raise, and an expression statement (no kind of its own)
SimpleStmts ==
    {MetaNode(kind, << >>, 1, FunctionScope, << >>) :
        kind \in {"RETURN", "RAISE", "UNKNOWN"}}

Block(stmts) == MetaNode("BLOCK", << >>, 1, FunctionScope, stmts)

\* the blocks of 1..MaxStmts simple statements
SimpleBlocks ==
    {Block(stmts) : stmts \in UNION {[1..n -> SimpleStmts] : n \in 1..MaxStmts}}

\* a statement of the outer function: a simple one, a nested function
\* definition, or an if with a block
OuterStmts ==
    SimpleStmts
    \cup {MetaNode("FUNCTION", <<"g">>, 1, FunctionScope, <<b>>) : b \in SimpleBlocks}
    \cup {MetaNode("CONDITIONAL", << >>, 1, FunctionScope, <<b>>) : b \in SimpleBlocks}

\* def f(): with a body of one or two statements
OuterFunctions ==
    {MetaNode("FUNCTION", <<"f">>, 1, ModuleScope, <<Block(<<a>>)>>) :
        a \in OuterStmts}
    \cup {MetaNode("FUNCTION", <<"f">>, 1, ModuleScope, <<Block(<<a, b>>)>>) :
            a, b \in OuterStmts}

\* at module level: `if c: raise E; x = 1` (no function around the block),
\* and three functions nested in each other, the innermost with
\* `return; x = 1`
UnreachableSamples ==
    {<<MetaNode("CONDITIONAL", << >>, 1, ModuleScope,
                <<Block(<<MetaNode("RAISE", << >>, 2, ModuleScope, << >>),
                          MetaNode("UNKNOWN", << >>, 3, ModuleScope, << >>)>>)>>)>>,
     <<MetaNode("FUNCTION", <<"f">>, 1, ModuleScope,
         <<Block(<<MetaNode("FUNCTION", <<"g">>, 2, FunctionScope,
             <<Block(<<MetaNode("FUNCTION", <<"h">>, 3, FunctionScope,
                 <<Block(<<MetaNode("RETURN", << >>, 4, FunctionScope, << >>),
                           MetaNode("UNKNOWN", << >>, 5, FunctionScope, << >>)>>)>>)>>)>>)>>)>>)>>}

UnreachableTrees ==
    {MetaAST(MetaNode("MODULE", << >>, 1, ModuleScope, f)) :
        f \in {<<fn>> : fn \in OuterFunctions} \cup UnreachableSamples}

\* normalise returns the MetaAST of some program
UnreachableNormalised ==
    /\ given = NoGiven
    /\ given' \in UnreachableTrees
    /\ UNCHANGED <<cache, inserted, LANGUAGES, built, call, ret, prev, pc, loc>>

\* _rule_unreachable_code(meta_ast, graphs)
RuleUnreachableCode ==
    /\ given.kind = "meta_ast"
    /\ ret = NoRet
    /\ ret' = RuleFindingsOf("unreachable_code", rule_unreachable_code(given))
    /\ UNCHANGED <<cache, inserted, LANGUAGES, built, call, prev, given, pc, loc>>

NextUnreachable == UnreachableNormalised \/ RuleUnreachableCode

SpecUnreachable == Init /\ [][NextUnreachable]_vars

(***************************************************************************)
(* SpecImport: the unused_import rule applied to the MetaAST of a Python   *)
(* program.  The nodes of tokens without a kind of their own (keywords,    *)
(* the dot, dotted_name wrappers) hold no name and are left out.           *)
(***************************************************************************)
Var(word) == MetaNode("VARIABLE", <<<<word>>>>, 1, ModuleScope, << >>)

\* the node of an import statement: its text, and the identifiers in it
ImportNode(text, words) ==
    MetaNode("IMPORT", text, 1, ModuleScope, [i \in DOMAIN words |-> Var(words[i])])

\* the node of the call base.attr()
AttrCall(base, attr) ==
    MetaNode("CALL", <<<<base>>, <<attr>>>>, 1, ModuleScope,
             <<MetaNode("ATTRIBUTE", << >>, 1, ModuleScope, <<Var(base), Var(attr)>>)>>)

\* import os; import os.path; import numpy as np; from os import path
ImportStmts ==
    {ImportNode(<<<<"import", "os">>>>, <<"os">>),
     ImportNode(<<<<"import", "os">>, <<"path">>>>, <<"os", "path">>),
     ImportNode(<<<<"import", "numpy", "as", "np">>>>, <<"numpy", "np">>),
     ImportNode(<<<<"from", "os", "import", "path">>>>, <<"os", "path">>)}

\* os.getcwd(); np.zeros(); path.join(); numpy.zeros()
UseStmts ==
    {AttrCall("os", "getcwd"), AttrCall("np", "zeros"), AttrCall("path", "join"),
     AttrCall("numpy", "zeros")}

ImportTrees ==
    {MetaAST(MetaNode("MODULE", << >>, 1, ModuleScope, f)) :
        f \in UNION {[1..n -> ImportStmts \cup UseStmts] : n \in 0..MaxStmts}}

\* normalise returns the MetaAST of some program
ImportNormalised ==
    /\ given = NoGiven
    /\ given' \in ImportTrees
    /\ UNCHANGED <<cache, inserted, LANGUAGES, built, call, ret, prev, pc, loc>>

\* _rule_unused_import(meta_ast, graphs)
RuleUnusedImport ==
    /\ given.kind = "meta_ast"
    /\ ret = NoRet
    /\ ret' = RuleFindingsOf("unused_import", rule_unused_import(given))
    /\ UNCHANGED <<cache, inserted, LANGUAGES, built, call, prev, given, pc, loc>>

NextImport == ImportNormalised \/ RuleUnusedImport

SpecImport == Init /\ [][NextImport]_vars

(***************************************************************************)
(* SpecDfg: build_dfg applied to the MetaAST of a program.  The nodes of   *)
(* tokens without a kind of their own (`=`, keywords) are left out.        *)
(***************************************************************************)
DfgVars == {"x", "y"}

VarAt(v, line, scope) == MetaNode("VARIABLE", <<v>>, line, scope, << >>)

\* v = w
Assign(v, w, line) ==
    MetaNode("ASSIGNMENT", << >>, line, ModuleScope,
             <<VarAt(v, line, ModuleScope), VarAt(w, line, ModuleScope)>>)

\* def f(p): p
FunctionOf(p, line) ==
    MetaNode("FUNCTION", <<"f">>, line, ModuleScope,
             <<MetaNode("PARAMETER", << >>, line, ModuleScope,
                        <<VarAt(p, line, ModuleScope)>>),
               MetaNode("BLOCK", << >>, line, FunctionScope,
                        <<VarAt(p, line, FunctionScope)>>)>>)

\* an assignment, a variable used in an expression statement, or a function
\* with one parameter
DfgStmts ==
    {Assign(v, w, line) : v, w \in DfgVars, line \in 1..MaxLine}
    \cup {VarAt(v, line, ModuleScope) : v \in DfgVars, line \in 1..MaxLine}
    \cup {FunctionOf(p, line) : p \in DfgVars, line \in 1..MaxLine}

\* the program of the test suite: x = 10; y = x + 5; print(y)
DfgSamples ==
    {<<MetaNode("ASSIGNMENT", << >>, 2, ModuleScope,
                <<VarAt("x", 2, ModuleScope),
                  MetaNode("LITERAL", <<"10">>, 2, ModuleScope, << >>)>>),
       MetaNode("ASSIGNMENT", << >>, 3, ModuleScope,
                <<VarAt("y", 3, ModuleScope),
                  MetaNode("BINARY_OP", << >>, 3, ModuleScope,
                           <<VarAt("x", 3, ModuleScope),
                             MetaNode("LITERAL", <<"5">>, 3, ModuleScope, << >>)>>)>>),
       MetaNode("CALL", <<"print">>, 4, ModuleScope,
                <<VarAt("print", 4, ModuleScope), VarAt("y", 4, ModuleScope)>>)>>}

DfgTrees ==
    {MetaAST(MetaNode("MODULE", << >>, 1, ModuleScope, f)) :
        f \in UNION {[1..n -> DfgStmts] : n \in 0..MaxStmts} \cup DfgSamples}

\* normalise returns the MetaAST of some program
DfgNormalised ==
    /\ given = NoGiven
    /\ given' \in DfgTrees
    /\ UNCHANGED <<cache, inserted, LANGUAGES, built, call, ret, prev, pc, loc>>

\* build_dfg(meta_ast)
BuildDfg ==
    /\ given.kind = "meta_ast"
    /\ ret = NoRet
    /\ ret' = build_dfg(given)
    /\ UNCHANGED <<cache, inserted, LANGUAGES, built, call, prev, given, pc, loc>>

NextDfg == DfgNormalised \/ BuildDfg

SpecDfg == Init /\ [][NextDfg]_vars

(***************************************************************************)
(* SpecCallGraph: build_call_graph applied to the MetaAST of a program     *)
(***************************************************************************)
FunctionNames == {<<"a">>, <<"b">>}

\* the calls a(), b(), obj.b() and c(), c being defined nowhere
CalleeNames == FunctionNames \cup {<<"obj", "b">>, <<"c">>}

\* def name(): followed by the calls of the body
FunctionDef(name, body) ==
    MetaNode("FUNCTION", name, 1, ModuleScope,
             <<MetaNode("BLOCK", << >>, 1, ModuleScope, body)>>)

\* the functions with an empty body or a body of one call
FunctionDefs ==
    {FunctionDef(name, << >>) : name \in FunctionNames}
    \cup {FunctionDef(name, <<CallNode(callee, 1, ModuleScope, << >>)>>) :
            name \in FunctionNames, callee \in CalleeNames}

\* def a(): b() / def b(): a() / def a(): pass  (a is defined twice), and
\* def a(): followed by a nested def b(): a(); b()  and an anonymous
\* function that calls a()
CallGraphSamples ==
    {<<FunctionDef(<<"a">>, <<CallNode(<<"b">>, 1, ModuleScope, << >>)>>),
       FunctionDef(<<"b">>, <<CallNode(<<"a">>, 1, ModuleScope, << >>)>>),
       FunctionDef(<<"a">>, << >>)>>,
     <<FunctionDef(<<"a">>,
          <<FunctionDef(<<"b">>, <<CallNode(<<"a">>, 1, ModuleScope, << >>),
                                   CallNode(<<"b">>, 1, ModuleScope, << >>)>>)>>),
       FunctionDef(<< >>, <<CallNode(<<"a">>, 1, ModuleScope, << >>)>>)>>}

CallGraphTrees ==
    {MetaAST(MetaNode("MODULE", << >>, 1, ModuleScope, f)) :
        f \in UNION {[1..n -> FunctionDefs] : n \in 0..MaxStmts}
              \cup CallGraphSamples}

\* normalise returns the MetaAST of some program
CallGraphNormalised ==
    /\ given = NoGiven
    /\ given' \in CallGraphTrees
    /\ UNCHANGED <<cache, inserted, LANGUAGES, built, call, ret, prev, pc, loc>>

\* build_call_graph(meta_ast)
BuildCallGraph ==
    /\ given.kind = "meta_ast"
    /\ ret = NoRet
    /\ ret' = build_call_graph(given)
    /\ UNCHANGED <<cache, inserted, LANGUAGES, built, call, prev, given, pc, loc>>

NextCallGraph == CallGraphNormalised \/ BuildCallGraph

SpecCallGraph == Init /\ [][NextCallGraph]_vars

(***************************************************************************)
(* Claims                                                                  *)
(***************************************************************************)
IsReport(r) == r.kind = "report"

\* the reports the engine holds or has just returned
Reports ==
    {cache[i].report : i \in DOMAIN cache}
    \cup (IF IsReport(ret) THEN {ret} ELSE {})

\* C1: verify always returns a VerificationReport, whichever stage fails;
\* no exception reaches the caller.
C1_VerifyTotal == call.made => IsReport(ret)

\* C2: in every report errors is the sub-list of the findings of severity
\* Error, and is_valid holds exactly when errors is empty and parse_ok.
C2_ErrorsAndValidity ==
    \A r \in Reports :
        /\ r.errors = SelectSeq(r.findings, LAMBDA f : f.severity = "error")
        /\ r.is_valid <=> (r.errors = << >> /\ r.parse_ok)
        /\ r.is_valid => (Len(r.errors) = 0 /\ r.parse_ok)

C2_Witness ==
    /\ IsReport(ret)
    /\ ~ret.is_valid
    /\ ret.parse_ok
    /\ Len(ret.errors) = 2
    /\ Len(ret.findings) > Len(ret.errors)

Count(findings, severity) ==
    Cardinality({i \in DOMAIN findings : findings[i].severity = severity})

\* the report of the full pipeline, as opposed to that of a parse that raised
FullPipeline(r) ==
    r.findings = << >> \/ r.findings[1].rule_id # "parse_error"

Formula(r) ==
    100 - (IF r.parse_ok THEN 0 ELSE 30)
        - 15 * Count(r.findings, "error")
        - 5 * Count(r.findings, "warning")
        - 2 * Count(r.findings, "info")

\* C3: the confidence of a report of the full pipeline is
\* max(0, 1.00 - 0.30 [parse errors] - 0.15 #Error - 0.05 #Warning - 0.02 #Info),
\* Hint findings deduct nothing, and it lies in [0, 1] (hundredths here).
C3_Confidence ==
    \A r \in Reports :
        FullPipeline(r) =>
            /\ r.confidence_score = Max(0, Formula(r))
            /\ r.confidence_score \in 0..100

C3_Witness ==
    /\ IsReport(ret)
    /\ FullPipeline(ret)
    /\ Formula(ret) < 0
    /\ ret.confidence_score = 0
    /\ Count(ret.findings, "error") >= 5

SameCall(a, b) == a.code = b.code /\ a.language = b.language

\* C4: two successive calls with the same code and language, both with
\* use_cache = true, return the same code_hash, findings and confidence.
C4_Idempotent ==
    (/\ prev.call.made
     /\ call.made
     /\ SameCall(prev.call, call)
     /\ prev.call.use_cache
     /\ call.use_cache
     /\ IsReport(prev.ret)
     /\ IsReport(ret))
    => /\ ret.code_hash = prev.ret.code_hash
       /\ ret.findings = prev.ret.findings
       /\ ret.confidence_score = prev.ret.confidence_score

C4_Witness ==
    /\ prev.call.made
    /\ SameCall(prev.call, call)
    /\ prev.call.use_cache
    /\ call.use_cache
    /\ ~prev.call.hit
    /\ prev.call.evicted # None
    /\ call.hit
    /\ ret.findings # << >>

\* C5: the cache never holds more than the capacity: a store into a cache
\* that holds the capacity first deletes one entry.
C5_Capacity ==
    /\ Len(cache) <= CACHE_MAX
    /\ (call.made /\ ~call.hit /\ IsReport(ret) /\ call.len_before >= CACHE_MAX)
       => /\ call.evicted # None
          /\ Len(cache) \in {call.len_before - 1, call.len_before}
          /\ (call.evicted \in Keys(cache) => call.evicted = call.h)

C5_Witness ==
    /\ call.made
    /\ call.len_before = CACHE_MAX
    /\ call.evicted # None
    /\ call.evicted \notin Keys(cache)
    /\ Len(cache) = CACHE_MAX

\* C6: eviction is FIFO: the entry deleted is the one inserted earliest
\* among those present, however recently a cache hit returned it.
C6_Fifo == (call.made /\ call.evicted # None) => call.evicted = call.eldest

C6_Witness ==
    /\ call.evicted # None
    /\ call.evicted = call.eldest
    /\ prev.call.hit
    /\ prev.call.h = call.evicted

\* C7: a call with use_cache = false leaves the cache as it was.
C7_DisabledLeavesCache ==
    [][(call'.made /\ ~call'.use_cache) => cache' = cache]_vars

\* C8: under any interleaving of concurrent calls the cache never holds
\* more than the capacity.
C8_CapacityUnderThreads == Cardinality(Keys(cache)) <= CACHE_MAX

\* C9: no call fails because of another call's cache operation: the lookup
\* of a key just tested present finds it, and eviction never deletes a key
\* that is already gone.
C9_NoCacheFailure == \A t \in Threads : loc[t].result.kind # "raise"

\* C10: under any interleaving of first calls the grammar object of a
\* language is constructed at most once.
C10_GrammarBuiltOnce == \A l \in Lang : built[l] <= 1

\* the rule set that the last call of verify ran
RulesOf(g) ==
    IF g.rules = Default THEN load_builtin_rules(g.env.fired) ELSE g.rules[1]

\* the rule is enabled and registered for the language
Applies(r, language) ==
    r.enabled /\ (r.languages = {} \/ language \in r.languages)

\* what the rules contribute one by one: the findings of each rule that
\* applies and returns, nothing for a rule that raises
RECURSIVE Expected(_, _, _)
Expected(rules, language, graphs) ==
    IF rules = << >> THEN << >>
    ELSE LET r    == Head(rules)
             done == r.match[graphs]
         IN  (IF Applies(r, language) /\ ~done.raises THEN done.findings ELSE << >>)
             \o Expected(Tail(rules), language, graphs)

\* the last call ran the stages past the parser and returned a report
FullRun ==
    /\ call.made
    /\ given.kind = "verify"
    /\ given.env.parse # "raise"
    /\ IsReport(ret)

RuleFindings(r) == SelectSeq(r.findings, LAMBDA f : f.rule_id # "syntax_error")

HasFinding(r, rule_id) == \E i \in DOMAIN r.findings : r.findings[i].rule_id = rule_id

\* C11: a rule whose match raises contributes no findings, and every other
\* enabled rule, before and after it, is evaluated and its findings are in
\* the report, in the order of the rules.
C11_RuleIsolation ==
    FullRun =>
        RuleFindings(ret) =
            Expected(RulesOf(given), call.resolved, GraphKinds \ given.env.failed)

C11_Witness ==
    /\ FullRun
    /\ given.rules # Default
    /\ Len(given.rules[1]) = 3
    /\ given.rules[1][1].id = "r_error"
    /\ given.rules[1][2].id = "broken"
    /\ given.rules[1][3].id = "r_info"
    /\ RuleFindings(ret) = <<Finding("r_error", "error"), Finding("r_info", "info"),
                             Finding("r_info", "info")>>

\* C12: whichever graph builders raise, the others still run: the rules are
\* handed a graph map that lacks exactly the failed kinds, every enabled
\* rule is still evaluated, and the taint rule finds nothing without a tfg.
C12_GraphIsolation ==
    FullRun =>
        LET failed == given.env.failed
            ids    == {RulesOf(given)[i].id : i \in DOMAIN RulesOf(given)}
        IN  /\ "probe" \in ids =>
                    {k \in GraphKinds : HasFinding(ret, "sees_" \o k)}
                        = GraphKinds \ failed
            /\ "tfg" \in failed => ~HasFinding(ret, "taint_flow")
            /\ given.rules = Default =>
                    \A i \in DOMAIN BuiltinIds :
                        (/\ BuiltinIds[i] \in given.env.fired
                         /\ Applies(RulesOf(given)[i], call.resolved)
                         /\ (BuiltinIds[i] = "taint_flow" => "tfg" \notin failed))
                        => HasFinding(ret, BuiltinIds[i])

C12_Witness ==
    /\ FullRun
    /\ given.rules = Default
    /\ given.env.failed = {"cfg", "tfg"}
    /\ given.env.fired = {"shell_injection", "taint_flow", "unreachable_code"}
    /\ RuleFindings(ret) = <<Finding("shell_injection", "error"),
                             Finding("unreachable_code", "warning")>>

\* C14: when the parser returns a tree with error or missing markers, the
\* report has parse_ok and is_valid false, holds exactly one syntax_error
\* Error finding, ahead of every finding of a rule, and the enabled rules
\* have still been evaluated.
C14_ParseDegradation ==
    (FullRun /\ given.env.parse = "has_errors") =>
        /\ ~ret.parse_ok
        /\ ~ret.is_valid
        /\ Cardinality({i \in DOMAIN ret.findings :
                            ret.findings[i].rule_id = "syntax_error"}) = 1
        /\ Head(ret.findings) = Finding("syntax_error", "error")
        /\ Tail(ret.findings) =
               Expected(RulesOf(given), call.resolved, GraphKinds \ given.env.failed)

C14_Witness ==
    /\ FullRun
    /\ given.env.parse = "has_errors"
    /\ Len(ret.findings) = 4
    /\ ret.findings[1].rule_id = "syntax_error"
    /\ ret.findings[2].rule_id = "py_only"
    /\ ret.errors = <<Finding("syntax_error", "error")>>

\* C15: when parsing raises, verify runs none of the later stages and
\* returns a report with is_valid and parse_ok false and confidence 0, whose
\* findings and errors are the single parse_error Error finding and whose
\* warnings are empty; the report is in the cache under the code hash.
C15_TotalParseFailure ==
    (call.made /\ given.kind = "verify" /\ given.env.parse = "raise") =>
        /\ IsReport(ret)
        /\ ~ret.is_valid
        /\ ~ret.parse_ok
        /\ ret.confidence_score = 0
        /\ ret.findings = <<Finding("parse_error", "error")>>
        /\ ret.errors = <<Finding("parse_error", "error")>>
        /\ ret.warnings = << >>
        /\ ret.code_hash = call.h
        /\ Contains(cache, call.h)
        /\ Lookup(cache, call.h) = ret

C15_Witness ==
    /\ call.made
    /\ given.kind = "verify"
    /\ given.env.parse = "raise"
    /\ given.env.normalise = "raise"
    /\ Len(given.rules[1]) = 2
    /\ given.rules[1][1].id = "r_error"
    /\ IsReport(ret)
    /\ Len(ret.findings) = 1
    /\ Keys(cache) = {call.h}

\* C16: every report with parse_ok false has a confidence below 0.7
\* (70 hundredths), whatever the rules and their findings.
C16_LowConfidence ==
    \A r \in Reports : ~r.parse_ok => r.confidence_score < 70

C16_Witness ==
    /\ FullRun
    /\ ~ret.parse_ok
    /\ ret.confidence_score = 55
    /\ Len(RulesOf(given)) > 0

\* the rules of the set that are enabled and whose languages are empty or
\* hold the language, in registration order
Registered(rules, language) == SelectSeq(rules, LAMBDA r : Applies(r, language))

\* C13 as stated: for every language string enabled_rules returns, in
\* registration order, exactly the rules that are enabled and whose
\* languages list is empty or contains the language.
C13_EnabledRules ==
    ret.kind = "rules" => ret.rules = Registered(given.rules, ret.language)

\* C13 amended: the same for every language string but the empty one (the
\* default of the parameter), so a Python-only rule is returned for python
\* and never for javascript.
C13_EnabledRulesNonEmpty ==
    (ret.kind = "rules" /\ ret.language # "") =>
        /\ ret.rules = Registered(given.rules, ret.language)
        /\ \A i \in DOMAIN ret.rules :
              ret.rules[i].languages = {"python"} => ret.language = "python"

C13_Witness ==
    /\ ret.kind = "rules"
    /\ ret.language = "javascript"
    /\ Len(given.rules) = 3
    /\ given.rules[1].id = "py_only"
    /\ given.rules[2].id = "disabled"
    /\ given.rules[3].id = "js_only"
    /\ Len(ret.rules) = 1
    /\ ret.rules[1].id = "js_only"

\* the text after the last dot of a file name, None when it has no dot
Extension(filename) ==
    IF Len(filename) >= 2 THEN filename[Len(filename)] ELSE None

\* the language of a recognised extension, None for any other
Recognised(ext) ==
    CASE ext \in {"py", "pyw", "pyi"}        -> "python"
      [] ext \in {"js", "mjs", "cjs", "jsx"} -> "javascript"
      [] OTHER                               -> None

\* the report was made for this language: it names it, it is keyed by it,
\* and the rules of the other language were filtered out
MadeFor(language) ==
    /\ call.resolved = language
    /\ call.h = code_hash(call.code, language)
    /\ ret.code_hash = call.h
    /\ ret.language = language
    /\ HasFinding(ret, "py_only") <=> language = "python"
    /\ HasFinding(ret, "js_only") <=> language = "javascript"

\* C19: with a file name of a recognised extension and the language left at
\* its default, the detected language replaces the default and is the one
\* hashed into the cache key, used to filter the rules and reported; a file
\* name of an unrecognised extension leaves the language as given.
C19_LanguageResolution ==
    (call.made /\ IsReport(ret) /\ call.filename # NoFile) =>
        LET detected == Recognised(Extension(call.filename))
        IN  /\ (detected # None /\ call.language = "python") => MadeFor(detected)
            /\ detected = None => MadeFor(call.language)

C19_Witness ==
    /\ call.made
    /\ call.filename = <<"app", "test", "jsx">>
    /\ call.language = "python"
    /\ IsReport(ret)
    /\ ret.language = "javascript"
    /\ ret.findings = <<Finding("js_only", "warning")>>
    /\ call.hit
    /\ prev.call.language = "javascript"

NodeIds(g) == {g.nodes[i].id : i \in DOMAIN g.nodes}

HasBackEdge(g) == \E i \in DOMAIN g.edges : g.edges[i].label = "back"

\* C17: for every MetaAST the graph build_cfg returns has entry and exit
\* set, and exit is in reachable_from(entry).
C17_ExitReachable ==
    ret.kind = "cfg" =>
        /\ ret.entry \in NodeIds(ret)
        /\ ret.exit \in NodeIds(ret)
        /\ ret.exit \in reachable_from(ret, ret.entry)

C17_Witness ==
    /\ ret.kind = "cfg"
    /\ HasBackEdge(ret)
    /\ Len(ret.nodes) >= 5
    /\ ret.exit \in reachable_from(ret, ret.entry)
    /\ reachable_from(ret, ret.entry) = NodeIds(ret)

\* C20: in the graph build_cfg returns every node left without an outgoing
\* edge by the walk is connected to EXIT, so EXIT is the only node without
\* a successor.
C20_LeavesToExit ==
    ret.kind = "cfg" =>
        \A n \in NodeIds(ret) : successors(ret, n) = {} => n = ret.exit

HasEdge(g, s, k) ==
    \E i \in DOMAIN g.edges : g.edges[i].src = s /\ g.edges[i].dst = k

Label(g, id) == g.nodes[id + 1].label

ScopeOf(g, id) == g.nodes[id + 1].meta.scope

LineOf(g, id) == g.nodes[id + 1].line

\* C18: in the graph build_taint_graph returns there is a taint_flow edge
\* from s to k exactly when s is a SOURCE node, k is a SINK node, their calls
\* have the same scope and s.line <= k.line; so no edge crosses scopes and
\* none starts at a SINK or ends at a SOURCE.
C18_TaintEdges ==
    ret.kind = "tfg" =>
        /\ \A s, k \in NodeIds(ret) :
              HasEdge(ret, s, k) <=>
                  /\ Label(ret, s) = "SOURCE"
                  /\ Label(ret, k) = "SINK"
                  /\ ScopeOf(ret, s) = ScopeOf(ret, k)
                  /\ LineOf(ret, s) <= LineOf(ret, k)
        /\ \A i \in DOMAIN ret.edges :
              /\ ret.edges[i].label = "taint_flow"
              /\ ret.edges[i].src \in NodeIds(ret)
              /\ ret.edges[i].dst \in NodeIds(ret)

C18_Witness ==
    /\ ret.kind = "tfg"
    /\ Len(ret.edges) = 3
    /\ \E s, k \in NodeIds(ret) :
          /\ Label(ret, s) = "SOURCE"
          /\ Label(ret, k) = "SINK"
          /\ ScopeOf(ret, s) # ScopeOf(ret, k)
          /\ LineOf(ret, s) <= LineOf(ret, k)
          /\ ~HasEdge(ret, s, k)
    /\ \E s, k \in NodeIds(ret) :
          /\ Label(ret, s) = "SOURCE"
          /\ Label(ret, k) = "SINK"
          /\ ScopeOf(ret, s) = ScopeOf(ret, k)
          /\ LineOf(ret, s) > LineOf(ret, k)
          /\ ~HasEdge(ret, s, k)

\* the ids of the rules of the rule set that the last call of verify was given
GivenIds == {RulesOf(given)[i].id : i \in DOMAIN RulesOf(given)}

\* C21: the report verify returns holds only findings of rules of the rule
\* set it was called with, besides the engine's own syntax_error and
\* parse_error, whatever calls were made before.
C21_OnlyGivenRules ==
    (call.made /\ given.kind = "verify" /\ IsReport(ret))
    => \A i \in DOMAIN ret.findings :
          ret.findings[i].rule_id \in GivenIds \cup {"syntax_error", "parse_error"}

\* C30: an entry leaves the cache only when a report is stored under a key
\* not yet cached while the cache holds the capacity; a report stored again
\* under a cached key evicts nothing, so a cache that has reached the
\* capacity holds exactly the capacity after every later call.
C30_EvictOnlyForNewKey ==
    [][/\ (\E k \in Keys(cache) : k \notin Keys(cache'))
          => (~Contains(cache, call'.h) /\ Len(cache) = CACHE_MAX)
       /\ Len(cache) = CACHE_MAX => Len(cache') = CACHE_MAX]_vars

\* C28: the spellings of a language are equivalent: two calls on the same
\* code whose language arguments resolve to the same language return the
\* same findings, is_valid and confidence_score.
C28_AliasEquivalence ==
    (/\ prev.call.made
     /\ call.made
     /\ prev.call.code = call.code
     /\ resolve_lang(prev.call.language) = resolve_lang(call.language)
     /\ IsReport(prev.ret)
     /\ IsReport(ret))
    => /\ ret.findings = prev.ret.findings
       /\ ret.is_valid = prev.ret.is_valid
       /\ ret.confidence_score = prev.ret.confidence_score

\* the place of a built-in rule in the registry
BuiltinIndex(id) == CHOOSE i \in DOMAIN BuiltinIds : BuiltinIds[i] = id

\* C27: the findings of a report are the syntax_error finding, if the tree
\* has error markers, followed by the findings of each enabled rule in the
\* order the rules were registered (the built-in rules in their fixed order
\* of seven), each rule's findings whole and in the order the rule returned
\* them; nothing is dropped, reordered or deduplicated.
C27_FindingsOrder ==
    FullRun =>
        /\ ret.findings =
              (IF given.env.parse = "ok" THEN << >>
               ELSE <<Finding("syntax_error", "error")>>)
              \o Expected(RulesOf(given), call.language, GraphKinds \ given.env.failed)
        /\ given.rules = Default =>
              \A i, j \in DOMAIN RuleFindings(ret) :
                  i < j => BuiltinIndex(RuleFindings(ret)[i].rule_id)
                              < BuiltinIndex(RuleFindings(ret)[j].rule_id)

C27_Witness ==
    /\ FullRun
    /\ given.rules # Default
    /\ Len(given.rules[1]) = 3
    /\ given.rules[1][1].id = "r_info"
    /\ given.rules[1][2].id = "r_error"
    /\ given.rules[1][3].id = "r_info"
    /\ ret.findings = <<Finding("syntax_error", "error"),
                        Finding("r_info", "info"), Finding("r_info", "info"),
                        Finding("r_error", "error"),
                        Finding("r_info", "info"), Finding("r_info", "info")>>

\* how often x occurs in the sequence s
Occurrences(s, x) == Len(SelectSeq(s, LAMBDA y : y = x))

\* the nodes the findings of a rule point at
ReportedNodes(findings) == [i \in DOMAIN findings |-> findings[i].meta_node]

\* the call's name is in the dangerous set, whole or by its last part
IsDangerous(fname) ==
    fname \in Dangerous \/ (Len(fname) >= 2 /\ <<fname[Len(fname)]>> \in Dangerous)

\* C29: the shell_injection rule emits exactly one finding per Call node
\* whose name matches the dangerous set by its full name or by its dotted
\* suffix, never two for the same Call, and none for any other call.
C29_OneFindingPerCall ==
    (ret.kind = "findings" /\ ret.rule = "shell_injection") =>
        \A c \in Range(all_calls(given)) :
            Occurrences(ReportedNodes(ret.findings), c) =
                IF IsDangerous(c.name) THEN Occurrences(all_calls(given), c) ELSE 0

\* the statements of a block that come after a RETURN or RAISE of the block
RECURSIVE AfterReturn(_, _)
AfterReturn(stmts, seen) ==
    IF stmts = << >> THEN << >>
    ELSE (IF seen THEN <<Head(stmts)>> ELSE << >>)
         \o AfterReturn(Tail(stmts), seen \/ Head(stmts).kind \in {"RETURN", "RAISE"})

\* every statement below node that follows a RETURN or RAISE in its block,
\* the block lying inside a function; each such statement once
RECURSIVE Unreachable(_, _)
RECURSIVE UnreachableEach(_, _)
UnreachableEach(children, inside) ==
    IF children = << >> THEN << >>
    ELSE Unreachable(Head(children), inside) \o UnreachableEach(Tail(children), inside)

Unreachable(node, inside) ==
    (IF node.kind = "BLOCK" /\ inside THEN AfterReturn(node.children, FALSE)
     ELSE << >>)
    \o UnreachableEach(node.children, inside \/ node.kind = "FUNCTION")

\* all nodes of a tree, in preorder
RECURSIVE Nodes(_)
RECURSIVE NodesEach(_)
NodesEach(children) ==
    IF children = << >> THEN << >>
    ELSE Nodes(Head(children)) \o NodesEach(Tail(children))

Nodes(node) == <<node>> \o NodesEach(node.children)

\* C22: the unreachable_code rule emits exactly one Warning finding for each
\* statement that follows a Return or Raise in the same Block inside a
\* Function, also when functions are nested, and none for any other
\* statement.
C22_UnreachableOnce ==
    (ret.kind = "findings" /\ ret.rule = "unreachable_code") =>
        /\ \A s \in Range(Nodes(given.root)) :
              Occurrences(ReportedNodes(ret.findings), s)
                  = Occurrences(Unreachable(given.root, FALSE), s)
        /\ \A i \in DOMAIN ret.findings : ret.findings[i].severity = "warning"

\* the simple imported name: the alias if there is one, else the last
\* component of the dotted module or imported name
ImportedName(imp) ==
    LET part == imp.name[Len(imp.name)] IN <<<<part[Len(part)]>>>>

\* the nodes of a tree outside its import statements, in preorder
RECURSIVE Elsewhere(_)
RECURSIVE ElsewhereEach(_)
ElsewhereEach(children) ==
    IF children = << >> THEN << >>
    ELSE Elsewhere(Head(children)) \o ElsewhereEach(Tail(children))

Elsewhere(node) ==
    IF node.kind = "IMPORT" THEN << >>
    ELSE <<node>> \o ElsewhereEach(node.children)

\* the Variable names and the Call base names used outside the imports
UsedElsewhere(root) ==
    {n.name : n \in {x \in Range(Elsewhere(root)) : x.kind = "VARIABLE"}}
    \cup {<<n.name[1]>> : n \in {x \in Range(Elsewhere(root)) : x.kind = "CALL"}}

\* C26: the unused_import rule reports an Import node exactly when its
\* simple imported name is neither a Variable name nor a Call base name used
\* elsewhere in the tree; `import m` with a call m.f() is not reported.
C26_UnusedImport ==
    (ret.kind = "findings" /\ ret.rule = "unused_import") =>
        \A imp \in Range(find_all(given.root, "IMPORT")) :
            Occurrences(ReportedNodes(ret.findings), imp) =
                IF ImportedName(imp) \in UsedElsewhere(given.root) THEN 0
                ELSE Occurrences(find_all(given.root, "IMPORT"), imp)

\* the names of the variables of a tree
VarNames(root) == NamesOf(find_all(root, "VARIABLE"))

\* the Variable nodes on the left-hand side of the assignments of a tree
AssignedVars(root) ==
    LET as == SelectSeq(find_all(root, "ASSIGNMENT"), LAMBDA a :
                  a.children # << >> /\ a.children[1].kind = "VARIABLE")
    IN  [i \in DOMAIN as |-> as[i].children[1]]

\* the Variable nodes that are parameters of the functions of a tree
RECURSIVE ParamsOfEach(_)
ParamsOfEach(nodes) ==
    IF nodes = << >> THEN << >>
    ELSE SelectSeq(Head(nodes).children, LAMBDA p : p.kind = "VARIABLE")
         \o ParamsOfEach(Tail(nodes))

RECURSIVE ParamVarsEach(_)
ParamVarsEach(fns) ==
    IF fns = << >> THEN << >>
    ELSE ParamsOfEach(SelectSeq(Head(fns).children, LAMBDA c : c.kind = "PARAMETER"))
         \o ParamVarsEach(Tail(fns))

ParamVars(root) == ParamVarsEach(find_all(root, "FUNCTION"))

\* how many of the nodes in s are named name
Named(s, name) == Len(SelectSeq(s, LAMBDA n : n.name = name))

\* how many nodes of the graph g carry the label
Labelled(g, label) == Len(SelectSeq(g.nodes, LAMBDA n : n.label = label))

\* C23: build_dfg creates exactly one fact node per variable occurrence: a
\* def node for the left-hand Variable of each Assignment and for each
\* Function parameter, a use node for every other Variable reference; no
\* occurrence yields two nodes and a defining occurrence yields no use node.
C23_OneFactPerOccurrence ==
    ret.kind = "dfg" =>
        /\ Len(ret.nodes) = Len(find_all(given.root, "VARIABLE"))
        /\ \A v \in VarNames(given.root) :
              /\ Labelled(ret, "def:" \o Str(v)) = Named(AssignedVars(given.root), v)
              /\ Labelled(ret, "param:" \o Str(v)) = Named(ParamVars(given.root), v)
              /\ Labelled(ret, "use:" \o Str(v)) =
                    Named(find_all(given.root, "VARIABLE"), v)
                    - Named(AssignedVars(given.root), v)
                    - Named(ParamVars(given.root), v)

\* the node is a def fact, a use fact, of the variable spelled s
IsDef(g, id, s) == Label(g, id) \in {"def:" \o s, "param:" \o s}
IsUse(g, id, s) == Label(g, id) = "use:" \o s

\* the edges of g from d to u
EdgesBetween(g, d, u) ==
    {i \in DOMAIN g.edges : g.edges[i].src = d /\ g.edges[i].dst = u}

\* the spellings of the variables of the tree the graph was built from
Spellings == {Str(v) : v \in VarNames(given.root)}

\* C24: in the graph build_dfg returns there is exactly one edge d -> u,
\* labelled with the variable, for every def fact d and use fact u of the
\* same variable with d.line <= u.line, and there is no other edge: none
\* between different variables, out of a use, or to a use on an earlier line.
C24_DefUseEdges ==
    ret.kind = "dfg" =>
        \A d, u \in NodeIds(ret) :
            LET flows(s) == /\ IsDef(ret, d, s)
                            /\ IsUse(ret, u, s)
                            /\ LineOf(ret, d) <= LineOf(ret, u)
            IN  /\ Cardinality(EdgesBetween(ret, d, u))
                      = IF \E s \in Spellings : flows(s) THEN 1 ELSE 0
                /\ \A i \in EdgesBetween(ret, d, u) : flows(ret.edges[i].label)

C24_Witness ==
    /\ ret.kind = "dfg"
    /\ Len(ret.edges) >= 2
    /\ \E d, u \in NodeIds(ret) :
          /\ IsDef(ret, d, "x") /\ IsUse(ret, u, "x")
          /\ LineOf(ret, d) > LineOf(ret, u)
          /\ EdgesBetween(ret, d, u) = {}
    /\ \E d, u \in NodeIds(ret) :
          /\ IsDef(ret, d, "x") /\ IsUse(ret, u, "y")
          /\ LineOf(ret, d) <= LineOf(ret, u)
          /\ EdgesBetween(ret, d, u) = {}
    /\ \E d, u \in NodeIds(ret) :
          /\ IsDef(ret, d, "x") /\ IsUse(ret, u, "x")
          /\ LineOf(ret, d) = LineOf(ret, u)
          /\ Cardinality(EdgesBetween(ret, d, u)) = 1

\* the named Function definitions of the tree, in preorder
NamedFunctions == SelectSeq(find_all(given.root, "FUNCTION"), LAMBDA f : f.name # << >>)

\* the name of a call without what precedes its last dot
Stripped(name) == IF name = << >> THEN << >> ELSE <<name[Len(name)]>>

\* the calls in the subtree of f whose stripped name is s
CallsTo(f, s) == SelectSeq(find_all(f, "CALL"), LAMBDA c : Stripped(c.name) = s)

\* C25: build_call_graph creates one node per named Function definition,
\* and for every named definition f and every Call in f's subtree whose
\* stripped name is the name of a defined function g exactly one calls edge
\* from f's own node to a node of g, and no other edge; also when several
\* definitions share a name and when functions call themselves or each other.
C25_CallEdges ==
    ret.kind = "call_graph" =>
        /\ Len(ret.nodes) = Len(NamedFunctions)
        /\ \A k \in DOMAIN NamedFunctions :
              /\ ret.nodes[k].meta = NamedFunctions[k]
              /\ \A s \in NamesOf(NamedFunctions) :
                    Cardinality({i \in DOMAIN ret.edges :
                                    /\ ret.edges[i].src = k - 1
                                    /\ Label(ret, ret.edges[i].dst) = Str(s)})
                        = Len(CallsTo(NamedFunctions[k], s))
        /\ \A i \in DOMAIN ret.edges :
              /\ ret.edges[i].label = "calls"
              /\ ret.edges[i].src \in NodeIds(ret)
              /\ ret.edges[i].dst \in NodeIds(ret)

====
